---- MODULE Spec2Model ----
(***************************************************************************)
(* norminette-mcp: the lossless C tokenizer (CLexer), the token formatter *)
(* (NorminetteFormatter) and its default rules, the checker's runner and   *)
(* the parser of its output (runNorminette, parseNorminetteOutput), and    *)
(* the fix pipeline (fixNorminetteErrors, fixFileErrors) with its          *)
(* structural fixer and its reformat stage, as state machines.             *)
(*                                                                         *)
(* Text is a sequence of one-character strings.  A token is a record       *)
(* [type, pos |-> [line, column], value]; value is a sequence of           *)
(* characters (the EOF token, built without a value, carries <<>>).        *)
(***************************************************************************)
EXTENDS Integers, Sequences, FiniteSets, TLC

VARIABLES
    input,      \* CLexer.input / the content handed to format
    position,   \* CLexer.position (0-based offset of the next character)
    line,       \* CLexer.line
    column,     \* CLexer.column
    tokens,     \* the token array (tokenize's local, then format's local)
    errors,     \* the NorminetteError[] handed to format; parseNorminetteOutput's
                \* errors; fixFileErrors' errors.errors (the re-run's diagnostics)
    rules,      \* NorminetteFormatter.rules
    ruleIdx,    \* format: index of the rule of the outer loop (1-based)
    errIdx,     \* format: index of the error of the inner loop (1-based)
    output,     \* format's return value; runNorminette's output; the normalizer's
                \* result; the generated header's text
    pc,         \* where the call stands
    targetPath, \* the path handed to runNorminette / fixNorminetteErrors
    exec,       \* what execSync did: [failed, stdout, stderr, message]
    lines,      \* parseNorminetteOutput: output.trim().split('\n');
                \* generateHeaderLines: lines
    lineIdx,    \* parseNorminetteOutput: index of the line of the loop (1-based)
    filesChecked,   \* parseNorminetteOutput: filesChecked
    result,     \* the NorminetteResult runNorminette returned
    files,      \* fixNorminetteErrors: the files to fix
    fileIdx,    \* fixNorminetteErrors: index of the file of the loop (1-based)
    disk,       \* the file system: path -> content
    perm,       \* the file system: path -> [readable, writable]
    content,    \* fixFileErrors: content
    originalContent,    \* fixFileErrors: originalContent
    fixes,      \* fixFileErrors: fixes
    initialErrors,  \* fixFileErrors: initialErrors.errors
    env,        \* what the clang-format processes and the temp config did;
                \* generateHeaderLines: header
    formatResult,   \* fixFileErrors: formatResult
    fixResults  \* fixNorminetteErrors: fixResults

formatVars == <<input, position, line, column, tokens, ruleIdx, errIdx>>

checkerVars == <<targetPath, exec, lines, lineIdx, filesChecked, result>>

pipelineVars ==
    <<files, fileIdx, disk, perm, content, originalContent, fixes, initialErrors,
      env, formatResult, fixResults>>

vars == <<formatVars, errors, rules, output, pc, checkerVars, pipelineVars>>

(***************************************************************************)
(* Bounds of the model.                                                    *)
(***************************************************************************)
MaxLen == 4
MaxWords == 3
MaxShortWords == 2
MaxErrors == 2

(***************************************************************************)
(* Characters.                                                             *)
(***************************************************************************)
Null == "null"

Lower == {"a","b","c","d","e","f","g","h","i","j","k","l","m",
          "n","o","p","q","r","s","t","u","v","w","x","y","z"}

Upper == {"A","B","C","D","E","F","G","H","I","J","K","L","M",
          "N","O","P","Q","R","S","T","U","V","W","X","Y","Z"}

isDigit(char) == char \in {"0","1","2","3","4","5","6","7","8","9"}

isHexDigit(char) ==
    \/ isDigit(char)
    \/ char \in {"a","b","c","d","e","f"}
    \/ char \in {"A","B","C","D","E","F"}

isAlpha(char) == char \in Lower \/ char \in Upper

isAlnum(char) == isAlpha(char) \/ isDigit(char)

(***************************************************************************)
(* lexer/dictionary: keywords, operators (longest first), brackets.        *)
(***************************************************************************)
keywords ==
    ( <<"i","n","t">> :> "INT" ) @@
    ( <<"c","h","a","r">> :> "CHAR" ) @@
    ( <<"v","o","i","d">> :> "VOID" ) @@
    ( <<"c","o","n","s","t">> :> "CONST" ) @@
    ( <<"s","t","a","t","i","c">> :> "STATIC" ) @@
    ( <<"s","t","r","u","c","t">> :> "STRUCT" ) @@
    ( <<"e","n","u","m">> :> "ENUM" ) @@
    ( <<"t","y","p","e","d","e","f">> :> "TYPEDEF" ) @@
    ( <<"i","f">> :> "IF" ) @@
    ( <<"e","l","s","e">> :> "ELSE" ) @@
    ( <<"w","h","i","l","e">> :> "WHILE" ) @@
    ( <<"f","o","r">> :> "FOR" ) @@
    ( <<"r","e","t","u","r","n">> :> "RETURN" )

operators ==
    ( <<"=","=">> :> "EQUALS" ) @@
    ( <<">","=">> :> "GREATER_OR_EQUAL" ) @@
    ( <<"=">> :> "ASSIGN" ) @@
    ( <<">">> :> "MORE_THAN" ) @@
    ( <<"+">> :> "PLUS" ) @@
    ( <<"-">> :> "MINUS" ) @@
    ( <<"*">> :> "MULT" ) @@
    ( <<"/">> :> "DIV" ) @@
    ( <<"%">> :> "MODULO" ) @@
    ( <<";">> :> "SEMI_COLON" ) @@
    ( <<",">> :> "COMMA" ) @@
    ( <<".">> :> "DOT" )

sortedOperators ==
    << <<"=","=">>, <<">","=">>, <<"=">>, <<">">>, <<"+">>, <<"-">>, <<"*">>,
       <<"/">>, <<"%">>, <<";">>, <<",">>, <<".">> >>

brackets ==
    ( "(" :> "LPARENTHESIS" ) @@ ( ")" :> "RPARENTHESIS" ) @@
    ( "{" :> "LBRACE" ) @@ ( "}" :> "RBRACE" ) @@
    ( "[" :> "LBRACKET" ) @@ ( "]" :> "RBRACKET" )

(***************************************************************************)
(* Token and the lexer's cursor.  A cursor is the triple the lexer keeps:  *)
(* [position, line, column].  The reading loops carry the cursor and the   *)
(* text accumulated from the characters advance() returned.                *)
(***************************************************************************)
Token(type, pos, value) == [type |-> type, pos |-> pos, value |-> value]

Cursor(p, l, c) == [position |-> p, line |-> l, column |-> c]

Position(cur) == [line |-> cur.line, column |-> cur.column]

peek(in, cur, offset) ==
    IF cur.position + offset < Len(in) THEN in[cur.position + offset + 1] ELSE Null

\* advance(): one character; the cursor moves only while inside the input.
advance(in, cur) ==
    IF cur.position < Len(in)
    THEN [cur |-> Cursor(cur.position + 1, cur.line, cur.column + 1),
          text |-> <<in[cur.position + 1]>>]
    ELSE [cur |-> cur, text |-> <<>>]

RECURSIVE advanceN(_, _, _)
advanceN(in, cur, count) ==
    IF count = 0 THEN cur ELSE advanceN(in, advance(in, cur).cur, count - 1)

advanceWithNewline(in, cur) ==
    LET char == in[cur.position + 1]
    IN  [cur |-> IF char = "\n"
                 THEN Cursor(cur.position + 1, cur.line + 1, 1)
                 ELSE Cursor(cur.position + 1, cur.line, cur.column + 1),
         text |-> <<char>>]

match(in, cur, str) == \A i \in 1..Len(str) : peek(in, cur, i - 1) = str[i]

\* A reading loop's state: the cursor and the text read so far.
Read(cur, text) == [cur |-> cur, text |-> text]

Step(r, a) == Read(a.cur, r.text \o a.text)

RECURSIVE readSpacesLoop(_, _)
readSpacesLoop(in, r) ==
    IF peek(in, r.cur, 0) = " "
    THEN readSpacesLoop(in, Step(r, advance(in, r.cur)))
    ELSE r

readSpaces(in, cur, pos) ==
    LET r == readSpacesLoop(in, Read(cur, <<>>))
    IN  [token |-> Token("SPACE", pos, r.text), cur |-> r.cur]

RECURSIVE readToEndOfLine(_, _)
readToEndOfLine(in, r) ==
    IF peek(in, r.cur, 0) # Null /\ peek(in, r.cur, 0) # "\n"
    THEN readToEndOfLine(in, Step(r, advance(in, r.cur)))
    ELSE r

readLineComment(in, cur, pos) ==
    LET r == readToEndOfLine(in, Read(cur, <<>>))
    IN  [token |-> Token("COMMENT", pos, r.text), cur |-> r.cur]

readPreprocessor(in, cur, pos) ==
    LET r == readToEndOfLine(in, Read(cur, <<>>))
    IN  [token |-> Token("HASH", pos, r.text), cur |-> r.cur]

RECURSIVE readBlockCommentLoop(_, _)
readBlockCommentLoop(in, r) ==
    IF r.cur.position < Len(in) - 1
    THEN IF peek(in, r.cur, 0) = "*" /\ peek(in, r.cur, 1) = "/"
         THEN LET r1 == Step(r, advance(in, r.cur))
              IN  Step(r1, advance(in, r1.cur))
         ELSE readBlockCommentLoop(in, Step(r, advanceWithNewline(in, r.cur)))
    ELSE r

\* A readBlockComment whose loop stops two characters before the end.
RECURSIVE readBlockCommentLoopShort(_, _)
readBlockCommentLoopShort(in, r) ==
    IF r.cur.position < Len(in) - 2
    THEN IF peek(in, r.cur, 0) = "*" /\ peek(in, r.cur, 1) = "/"
         THEN LET r1 == Step(r, advance(in, r.cur))
              IN  Step(r1, advance(in, r1.cur))
         ELSE readBlockCommentLoopShort(in, Step(r, advanceWithNewline(in, r.cur)))
    ELSE r

readBlockCommentShort(in, cur, pos) ==
    LET r == readBlockCommentLoopShort(in, Read(cur, <<>>))
    IN  [token |-> Token("COMMENT", pos, r.text), cur |-> r.cur]

readBlockComment(in, cur, pos) ==
    LET r == readBlockCommentLoop(in, Read(cur, <<>>))
    IN  [token |-> Token("COMMENT", pos, r.text), cur |-> r.cur]

\* The body shared by readString and readChar: up to the closing quote.
RECURSIVE readQuotedLoop(_, _, _)
readQuotedLoop(in, r, quote) ==
    IF peek(in, r.cur, 0) # Null /\ peek(in, r.cur, 0) # quote
    THEN IF peek(in, r.cur, 0) = "\\"
         THEN LET r1 == Step(r, advance(in, r.cur))
                  r2 == IF peek(in, r1.cur, 0) # Null
                        THEN Step(r1, advance(in, r1.cur))
                        ELSE r1
              IN  readQuotedLoop(in, r2, quote)
         ELSE readQuotedLoop(in, Step(r, advanceWithNewline(in, r.cur)), quote)
    ELSE r

\* A literal reader that gives the backslash no meaning.
RECURSIVE readQuotedLoopRaw(_, _, _)
readQuotedLoopRaw(in, r, quote) ==
    IF peek(in, r.cur, 0) # Null /\ peek(in, r.cur, 0) # quote
    THEN readQuotedLoopRaw(in, Step(r, advanceWithNewline(in, r.cur)), quote)
    ELSE r

readQuotedRaw(in, cur, quote) ==
    LET r0 == Step(Read(cur, <<>>), advance(in, cur))
        r1 == readQuotedLoopRaw(in, r0, quote)
    IN  IF peek(in, r1.cur, 0) = quote THEN Step(r1, advance(in, r1.cur)) ELSE r1

readQuoted(in, cur, quote) ==
    LET r0 == Step(Read(cur, <<>>), advance(in, cur))
        r1 == readQuotedLoop(in, r0, quote)
    IN  IF peek(in, r1.cur, 0) = quote THEN Step(r1, advance(in, r1.cur)) ELSE r1

readString(in, cur, pos) ==
    LET r == readQuoted(in, cur, "\"")
    IN  [token |-> Token("STRING", pos, r.text), cur |-> r.cur]

readChar(in, cur, pos) ==
    LET r == readQuoted(in, cur, "'")
    IN  [token |-> Token("CONSTANT", pos, r.text), cur |-> r.cur]

RECURSIVE readDigits(_, _)
readDigits(in, r) ==
    IF isDigit(peek(in, r.cur, 0))
    THEN readDigits(in, Step(r, advance(in, r.cur)))
    ELSE r

RECURSIVE readHexDigits(_, _)
readHexDigits(in, r) ==
    IF isHexDigit(peek(in, r.cur, 0))
    THEN readHexDigits(in, Step(r, advance(in, r.cur)))
    ELSE r

RECURSIVE readAlphas(_, _)
readAlphas(in, r) ==
    IF isAlpha(peek(in, r.cur, 0))
    THEN readAlphas(in, Step(r, advance(in, r.cur)))
    ELSE r

readNumber(in, cur, pos) ==
    LET r0 == Read(cur, <<>>)
        body ==
            IF peek(in, cur, 0) = "0" /\ peek(in, cur, 1) \in {"x", "X"}
            THEN LET h1 == Step(r0, advance(in, r0.cur))
                     h2 == Step(h1, advance(in, h1.cur))
                 IN  readHexDigits(in, h2)
            ELSE LET d1 == readDigits(in, r0)
                 IN  IF peek(in, d1.cur, 0) = "." /\ isDigit(peek(in, d1.cur, 1))
                     THEN readDigits(in, Step(d1, advance(in, d1.cur)))
                     ELSE d1
        r == readAlphas(in, body)
    IN  [token |-> Token("CONSTANT", pos, r.text), cur |-> r.cur]

RECURSIVE readIdentifierLoop(_, _)
readIdentifierLoop(in, r) ==
    IF isAlnum(peek(in, r.cur, 0)) \/ peek(in, r.cur, 0) = "_"
    THEN readIdentifierLoop(in, Step(r, advance(in, r.cur)))
    ELSE r

readIdentifier(in, cur, pos) ==
    LET r == readIdentifierLoop(in, Read(cur, <<>>))
        tokenType == IF r.text \in DOMAIN keywords THEN keywords[r.text] ELSE "IDENTIFIER"
    IN  [token |-> Token(tokenType, pos, r.text), cur |-> r.cur]

\* The first operator of sortedOperators that matches at the cursor, or 0.
matchedOperator(in, cur) ==
    LET hits == {k \in 1..Len(sortedOperators) : match(in, cur, sortedOperators[k])}
    IN  IF hits = {} THEN 0 ELSE CHOOSE k \in hits : \A j \in hits : k <= j

\* A skipWhitespace that does skip: spaces are consumed and no token keeps them.
RECURSIVE skipWhitespaceSkipping(_, _)
skipWhitespaceSkipping(in, cur) ==
    IF peek(in, cur, 0) = " " THEN skipWhitespaceSkipping(in, advance(in, cur).cur) ELSE cur

\* skipWhitespace has an empty body: whitespace is kept as tokens.
skipWhitespace(in, cur) == cur

NoToken == [type |-> "null"]

\* The recognizers of nextToken, tried in order at a cursor inside the input.
scanToken(in, cur) ==
    LET currentPos == Position(cur)
        c0 == peek(in, cur, 0)
        c1 == peek(in, cur, 1)
        op == matchedOperator(in, cur)
    IN  IF c0 = "/" /\ c1 = "/" THEN readLineComment(in, cur, currentPos)
        ELSE IF c0 = "/" /\ c1 = "*" THEN readBlockComment(in, cur, currentPos)
        ELSE IF c0 = "#" THEN readPreprocessor(in, cur, currentPos)
        ELSE IF c0 = "\"" THEN readString(in, cur, currentPos)
        ELSE IF c0 = "'" THEN readChar(in, cur, currentPos)
        ELSE IF isDigit(c0) THEN readNumber(in, cur, currentPos)
        ELSE IF op # 0
             THEN [token |-> Token(operators[sortedOperators[op]], currentPos, sortedOperators[op]),
                   cur |-> advanceN(in, cur, Len(sortedOperators[op]))]
        ELSE IF c0 \in DOMAIN brackets
             THEN [token |-> Token(brackets[c0], currentPos, <<c0>>),
                   cur |-> advance(in, cur).cur]
        ELSE IF isAlpha(c0) \/ c0 = "_" THEN readIdentifier(in, cur, currentPos)
        ELSE IF c0 = " " THEN readSpaces(in, cur, currentPos)
        ELSE IF c0 = "\t"
             THEN [token |-> Token("TAB", currentPos, <<"\t">>), cur |-> advance(in, cur).cur]
        ELSE IF c0 = "\n"
             THEN [token |-> Token("NEWLINE", currentPos, <<"\n">>),
                   cur |-> advanceWithNewline(in, cur).cur]
        ELSE [token |-> Token("UNKNOWN", currentPos, <<c0>>), cur |-> advance(in, cur).cur]

\* nextToken: the token (or null at the end of input) and the cursor after it.
nextToken(in, cur) ==
    LET c == skipWhitespace(in, cur)
    IN  IF c.position >= Len(in) THEN [token |-> NoToken, cur |-> c] ELSE scanToken(in, c)

\* tokens.push(token) when nextToken returned one.
pushToken(toks, token) == IF token = NoToken THEN toks ELSE Append(toks, token)

EOFToken(cur) == Token("EOF", Position(cur), <<>>)

\* tokenize's main loop from a cursor, then the EOF token.
RECURSIVE tokenizeFrom(_, _, _)
tokenizeFrom(in, cur, acc) ==
    IF cur.position < Len(in)
    THEN LET n == nextToken(in, cur) IN tokenizeFrom(in, n.cur, pushToken(acc, n.token))
    ELSE [tokens |-> Append(acc, EOFToken(cur)), cur |-> cur]

tokenize(in) == tokenizeFrom(in, Cursor(0, 1, 1), <<>>)

\* reconstructSource: the values in order, up to the first EOF token.
RECURSIVE reconstructSource(_)
reconstructSource(toks) ==
    IF toks = <<>> THEN <<>>
    ELSE IF Head(toks).type = "EOF" THEN <<>>
    ELSE Head(toks).value \o reconstructSource(Tail(toks))

(***************************************************************************)
(* Token getters and the formatter's rules.  An error (NorminetteError) is *)
(* the record [error_code, line, column].                                  *)
(***************************************************************************)
\* A lineno one too small (0-based lines).
linenoZeroBased(token) == token.pos.line - 1

lineno(token) == token.pos.line

length(token) == Len(token.value)

lineTokens(toks, error) == SelectSeq(toks, LAMBDA t : lineno(t) = error.line)

TabToken(spaceToken) == Token("TAB", spaceToken.pos, <<"\t">>)

\* spaceReplaceTabRule: the window prevToken, spaceToken, nextToken (here followingToken).
spaceReplaceTabWindow(prevToken, spaceToken, followingToken) ==
    /\ spaceToken.type = "SPACE"
    /\ \/ /\ prevToken.type \in {"IDENTIFIER", "INT", "CHAR", "VOID", "CONST"}
          /\ followingToken.type \in {"IDENTIFIER", "MULT", "LPARENTHESIS"}
       \/ /\ prevToken.type = "RBRACE"
          /\ followingToken.type = "IDENTIFIER"

spaceReplaceTabCanFix(toks, error) ==
    LET lt == lineTokens(toks, error)
    IN  \E i \in 1..(Len(lt) - 2) : spaceReplaceTabWindow(lt[i], lt[i + 1], lt[i + 2])

\* An apply that overwrites result[i] instead of result[i + 1].
spaceReplaceTabApplyAtPrev(toks, error) ==
    LET hits == {i \in 1..(Len(toks) - 2) :
                    /\ lineno(toks[i]) = error.line
                    /\ spaceReplaceTabWindow(toks[i], toks[i + 1], toks[i + 2])}
    IN  IF hits = {} THEN toks
        ELSE LET i == CHOOSE k \in hits : \A j \in hits : k <= j
             IN  [toks EXCEPT ![i] = TabToken(toks[i + 1])]

\* apply: the first window whose prevToken is on the error's line.
spaceReplaceTabApply(toks, error) ==
    LET hits == {i \in 1..(Len(toks) - 2) :
                    /\ lineno(toks[i]) = error.line
                    /\ spaceReplaceTabWindow(toks[i], toks[i + 1], toks[i + 2])}
    IN  IF hits = {} THEN toks
        ELSE LET i == CHOOSE k \in hits : \A j \in hits : k <= j
             IN  [toks EXCEPT ![i + 1] = TabToken(toks[i + 1])]

\* spaceBeforeFuncRule: the window typeToken, spaceToken, funcToken, parenToken.
spaceBeforeFuncWindow(typeToken, spaceToken, funcToken, parenToken) ==
    /\ typeToken.type \in {"IDENTIFIER", "INT"}
    /\ spaceToken.type = "SPACE"
    /\ funcToken.type = "IDENTIFIER"
    /\ parenToken.type = "LPARENTHESIS"

spaceBeforeFuncCanFix(toks, error) ==
    LET lt == lineTokens(toks, error)
    IN  \E i \in 1..(Len(lt) - 3) :
            spaceBeforeFuncWindow(lt[i], lt[i + 1], lt[i + 2], lt[i + 3])

\* An apply that takes the first window of the file, whatever its line.
spaceBeforeFuncApplyAnyLine(toks, error) ==
    LET hits == {i \in 1..(Len(toks) - 3) :
                    spaceBeforeFuncWindow(toks[i], toks[i + 1], toks[i + 2], toks[i + 3])}
    IN  IF hits = {} THEN toks
        ELSE LET i == CHOOSE k \in hits : \A j \in hits : k <= j
             IN  [toks EXCEPT ![i + 1] = TabToken(toks[i + 1])]

spaceBeforeFuncApply(toks, error) ==
    LET hits == {i \in 1..(Len(toks) - 3) :
                    /\ lineno(toks[i]) = error.line
                    /\ spaceBeforeFuncWindow(toks[i], toks[i + 1], toks[i + 2], toks[i + 3])}
    IN  IF hits = {} THEN toks
        ELSE LET i == CHOOSE k \in hits : \A j \in hits : k <= j
             IN  [toks EXCEPT ![i + 1] = TabToken(toks[i + 1])]

spaceReplaceTabRule ==
    [name |-> "SPACE_REPLACE_TAB", errorCodes |-> {"SPACE_REPLACE_TAB"}, priority |-> 1]

spaceBeforeFuncRule ==
    [name |-> "SPACE_BEFORE_FUNC", errorCodes |-> {"SPACE_BEFORE_FUNC"}, priority |-> 1]

defaultFormattingRules == <<spaceReplaceTabRule, spaceBeforeFuncRule>>

canFix(rule, toks, error) ==
    IF rule.name = "SPACE_REPLACE_TAB" THEN spaceReplaceTabCanFix(toks, error)
    ELSE spaceBeforeFuncCanFix(toks, error)

apply(rule, toks, error) ==
    IF rule.name = "SPACE_REPLACE_TAB" THEN spaceReplaceTabApply(toks, error)
    ELSE spaceBeforeFuncApply(toks, error)

(***************************************************************************)
(* NorminetteFormatter.                                                    *)
(***************************************************************************)
\* addRule: push, then a stable sort by ascending priority.
RECURSIVE insertByPriority(_, _)
insertByPriority(sorted, rule) ==
    IF sorted = <<>> THEN <<rule>>
    ELSE IF Head(sorted).priority <= rule.priority
         THEN <<Head(sorted)>> \o insertByPriority(Tail(sorted), rule)
         ELSE <<rule>> \o sorted

RECURSIVE sortByPriority(_)
sortByPriority(rs) ==
    IF rs = <<>> THEN <<>>
    ELSE insertByPriority(sortByPriority(SubSeq(rs, 1, Len(rs) - 1)), rs[Len(rs)])

\* An addRule that pushes and does not sort.
addRuleUnsorted(rs, rule) == Append(rs, rule)

addRule(rs, rule) == sortByPriority(Append(rs, rule))

\* The module's formatter: every default rule added to a new formatter.
RECURSIVE addRules(_, _)
addRules(rs, toAdd) ==
    IF toAdd = <<>> THEN rs ELSE addRules(addRule(rs, Head(toAdd)), Tail(toAdd))

formatter == addRules(<<>>, defaultFormattingRules)

\* A loop body that asks canFix alone, whatever the error's code.
formatPairAnyCode(rule, error, toks) ==
    IF canFix(rule, toks, error) THEN apply(rule, toks, error) ELSE toks

\* The body of format's inner loop for one rule and one error.
formatPair(rule, error, toks) ==
    IF error.error_code \in rule.errorCodes /\ canFix(rule, toks, error)
    THEN apply(rule, toks, error)
    ELSE toks

\* format's two loops from the pair (r, e) on.
RECURSIVE formatLoop(_, _, _, _, _)
formatLoop(rs, errs, toks, r, e) ==
    IF r > Len(rs) THEN toks
    ELSE IF e > Len(errs) THEN formatLoop(rs, errs, toks, r + 1, 1)
    ELSE formatLoop(rs, errs, formatPair(rs[r], errs[e], toks), r, e + 1)

\* format from step 2 on: the loops over a token stream, then reconstructSource.
formatTokens(rs, toks, errs) == reconstructSource(formatLoop(rs, errs, toks, 1, 1))

format(rs, source, errs) == formatTokens(rs, tokenize(source).tokens, errs)

findTokenAtPosition(toks, l, c) ==
    LET hits == {i \in 1..Len(toks) :
                    /\ lineno(toks[i]) = l
                    /\ toks[i].pos.column <= c
                    /\ toks[i].pos.column + length(toks[i]) > c}
    IN  IF hits = {} THEN 0 ELSE CHOOSE k \in hits : \A j \in hits : k <= j

(***************************************************************************)
(* One call formatter.format(content, errors) on the module's formatter.   *)
(* The content is a few words of C; the errors are what the checker could  *)
(* report on it: a code, a line of the file (or the line after the last),  *)
(* and the column of a run of spaces of that line when it has one.         *)
(***************************************************************************)
Words ==
    { <<"x">>, <<"x", " ">>, <<"x", "\t">>, <<"i", "n", "t", " ">>,
      <<"v", "o", "i", "d", " ">>, <<"(">>, <<"*", " ">>, <<"}", " ">>,
      <<" ">>, <<"x", "\n">> }

RECURSIVE Flatten(_)
Flatten(ws) == IF ws = <<>> THEN <<>> ELSE Head(ws) \o Flatten(Tail(ws))

\* The words of the contents that come with several errors.
ShortWords == { <<"x">>, <<"x", " ">>, <<"i", "n", "t", " ">>, <<"(">>, <<"x", "\n">> }

ContentsOf(words, n) == {Flatten(ws) : ws \in UNION {[1..k -> words] : k \in 0..n}}

ErrorCodes == {"SPACE_REPLACE_TAB", "SPACE_BEFORE_FUNC", "SPC_AFTER_POINTER"}

NewlineCount(text) == Cardinality({i \in 1..Len(text) : text[i] = "\n"})

SpaceColumns(toks, l) ==
    {toks[i].pos.column : i \in {k \in 1..Len(toks) : toks[k].type = "SPACE" /\ toks[k].pos.line = l}}

ErrorsOn(source) ==
    LET toks == tokenize(source).tokens
    IN  UNION { LET cols == IF SpaceColumns(toks, l) = {} THEN {1} ELSE SpaceColumns(toks, l)
                IN  [error_code : ErrorCodes, line : {l}, column : cols]
                : l \in 1..(NewlineCount(source) + 2) }

\* The checker lists its errors by line, then by column.
InCheckerOrder(errs) ==
    \A k \in 1..(Len(errs) - 1) :
        /\ errs[k] # errs[k + 1]
        /\ \/ errs[k].line < errs[k + 1].line
           \/ errs[k].line = errs[k + 1].line /\ errs[k].column <= errs[k + 1].column

ErrorLists(source, n) ==
    {errs \in UNION {[1..k -> ErrorsOn(source)] : k \in 0..n} : InCheckerOrder(errs)}

\* No checker run and no fix pipeline is under way.
IdleChecker ==
    /\ targetPath = <<>>
    /\ exec = [failed |-> FALSE, stdout |-> <<>>, stderr |-> <<>>, message |-> <<>>]
    /\ lines = <<>>
    /\ lineIdx = 1
    /\ filesChecked = 0
    /\ result = [status |-> "OK", files_checked |-> 0, errors |-> <<>>, summary |-> <<>>]

IdlePipeline ==
    /\ files = <<>>
    /\ fileIdx = 1
    /\ disk = <<>>
    /\ perm = <<>>
    /\ content = <<>>
    /\ originalContent = <<>>
    /\ fixes = <<>>
    /\ initialErrors = <<>>
    /\ env = <<>>
    /\ formatResult = <<>>
    /\ fixResults = <<>>

\* Longer contents come with at most one error, short ones with up to MaxErrors.
Init ==
    /\ \/ input \in ContentsOf(Words, MaxWords) /\ errors \in ErrorLists(input, 1)
       \/ input \in ContentsOf(ShortWords, MaxShortWords) /\ errors \in ErrorLists(input, MaxErrors)
    /\ rules = formatter
    /\ position = 0
    /\ line = 1
    /\ column = 1
    /\ tokens = <<>>
    /\ ruleIdx = 1
    /\ errIdx = 1
    /\ output = <<>>
    /\ pc = "format"
    /\ IdleChecker
    /\ IdlePipeline

\* Step 1: const lexer = new CLexer(content); let tokens = lexer.tokenize().
FormatTokenize ==
    /\ pc = "format"
    /\ \E t \in {tokenize(input)} :
           /\ tokens' = t.tokens
           /\ position' = t.cur.position
           /\ line' = t.cur.line
           /\ column' = t.cur.column
    /\ pc' = "rules"
    /\ UNCHANGED <<input, errors, rules, ruleIdx, errIdx, output>>
    /\ UNCHANGED <<checkerVars, pipelineVars>>

\* Step 2: one iteration of the inner loop, for rules[ruleIdx] and errors[errIdx].
FormatRule ==
    /\ pc = "rules"
    /\ ruleIdx <= Len(rules)
    /\ errIdx <= Len(errors)
    /\ tokens' = formatPair(rules[ruleIdx], errors[errIdx], tokens)
    /\ IF errIdx < Len(errors)
       THEN errIdx' = errIdx + 1 /\ ruleIdx' = ruleIdx
       ELSE errIdx' = 1 /\ ruleIdx' = ruleIdx + 1
    /\ UNCHANGED <<input, position, line, column, errors, rules, output, pc>>
    /\ UNCHANGED <<checkerVars, pipelineVars>>

\* Step 3: the loops are over; return this.reconstructSource(tokens).
FormatReturn ==
    /\ pc = "rules"
    /\ ruleIdx > Len(rules) \/ Len(errors) = 0
    /\ output' = reconstructSource(tokens)
    /\ pc' = "done"
    /\ UNCHANGED <<input, position, line, column, tokens, errors, rules, ruleIdx, errIdx>>
    /\ UNCHANGED <<checkerVars, pipelineVars>>

Next == FormatTokenize \/ FormatRule \/ FormatReturn

Spec == Init /\ [][Next]_vars

(***************************************************************************)
(* The tokenizer alone: new CLexer(s).tokenize(), one nextToken per step,  *)
(* then the reconstruction of the text from the returned tokens.           *)
(***************************************************************************)
LexAlphabet == {"/", "*", "\"", "'", "\\", "\n", " ", "\t", "a", "0", "#", "=", "(", "@"}

LexInputs == UNION {[1..n -> LexAlphabet] : n \in 0..MaxLen}

InitLexer ==
    /\ input \in LexInputs
    /\ position = 0
    /\ line = 1
    /\ column = 1
    /\ tokens = <<>>
    /\ errors = <<>>
    /\ rules = <<>>
    /\ ruleIdx = 1
    /\ errIdx = 1
    /\ output = <<>>
    /\ pc = "tokenize"
    /\ IdleChecker
    /\ IdlePipeline

\* One iteration of tokenize's while loop.
TokenizeStep ==
    /\ pc = "tokenize"
    /\ position < Len(input)
    /\ \E n \in {nextToken(input, Cursor(position, line, column))} :
           /\ tokens' = pushToken(tokens, n.token)
           /\ position' = n.cur.position
           /\ line' = n.cur.line
           /\ column' = n.cur.column
    /\ UNCHANGED <<input, errors, rules, ruleIdx, errIdx, output, pc>>
    /\ UNCHANGED <<checkerVars, pipelineVars>>

\* The loop ends: the EOF token is appended and tokenize returns.
TokenizeReturn ==
    /\ pc = "tokenize"
    /\ position >= Len(input)
    /\ tokens' = Append(tokens, EOFToken(Cursor(position, line, column)))
    /\ pc' = "tokenized"
    /\ UNCHANGED <<input, position, line, column, errors, rules, ruleIdx, errIdx, output>>
    /\ UNCHANGED <<checkerVars, pipelineVars>>

\* reconstructSource on the tokens tokenize returned.
Reconstruct ==
    /\ pc = "tokenized"
    /\ output' = reconstructSource(tokens)
    /\ pc' = "done"
    /\ UNCHANGED <<input, position, line, column, tokens, errors, rules, ruleIdx, errIdx>>
    /\ UNCHANGED <<checkerVars, pipelineVars>>

NextLexer == TokenizeStep \/ TokenizeReturn \/ Reconstruct

SpecLexer == InitLexer /\ [][NextLexer]_vars

\* C1 (round trip): the text reconstructed from the tokens of tokenize(s),
\* up to and excluding the EOF token, is exactly s; while tokenizing, the
\* values of the tokens read so far spell the consumed prefix of s.
RoundTrip ==
    /\ pc = "done" => output = input
    /\ pc = "tokenize" => reconstructSource(tokens) = SubSeq(input, 1, position)

\* C1 witness: a full round trip of an input that holds an unterminated
\* string literal and an unrecognized character.
RoundTripWitness ==
    /\ pc = "done"
    /\ Len(input) = MaxLen
    /\ \E i \in 1..Len(tokens) : tokens[i].type = "STRING" /\ tokens[i].value = <<"\"">>
    /\ \E i \in 1..Len(tokens) : tokens[i].type = "UNKNOWN"

\* C2 (termination): every nextToken made inside the input consumes at least
\* one character and stays inside the input, pushing one token; once the input
\* is consumed tokenize returns with EOF last, after at most |s| other tokens.
TokenizeProgress ==
    [][ /\ (pc = "tokenize" /\ position < Len(input)) =>
              /\ position' > position
              /\ position' <= Len(input)
              /\ Len(tokens') = Len(tokens) + 1
              /\ pc' = "tokenize"
        /\ (pc = "tokenize" /\ position >= Len(input)) =>
              /\ pc' = "tokenized"
              /\ Len(tokens') <= Len(input) + 1
              /\ tokens'[Len(tokens')].type = "EOF"
              /\ \A i \in 1..(Len(tokens') - 1) : tokens'[i].type # "EOF" ]_vars

\* C2 witness: the worst case, one token per character of a longest input,
\* among them an unrecognized character, and tokenize has returned.
TokenizeProgressWitness ==
    /\ pc = "tokenized"
    /\ Len(input) = MaxLen
    /\ Len(tokens) = MaxLen + 1
    /\ \E i \in 1..Len(tokens) : tokens[i].type = "UNKNOWN"

(***************************************************************************)
(* The claims about format, under Spec.                                    *)
(***************************************************************************)
\* The token stream format started from.
T0 == tokenize(input).tokens

\* C3 (position-addressed edits): with one diagnostic, the only token format
\* rewrites is the one located at the diagnostic's (line, column); every other
\* token, other matching windows of the same line included, is unchanged.
PositionAddressed ==
    (pc = "done" /\ Len(errors) = 1) =>
        \A t0 \in {T0} :
            /\ Len(tokens) = Len(t0)
            /\ \A i \in 1..Len(t0) :
                  tokens[i] # t0[i] =>
                      i = findTokenAtPosition(t0, errors[1].line, errors[1].column)

\* C4 (locality): an iteration of format's loop for a diagnostic at line L
\* keeps the number and order of the tokens and changes no token whose line is
\* not L, a changed token keeps its position; the text format returns has as
\* many lines as its input.
Locality ==
    [][ /\ (pc = "rules" /\ pc' = "rules") =>
              /\ Len(tokens') = Len(tokens)
              /\ \A i \in 1..Len(tokens) :
                    tokens'[i] # tokens[i] =>
                        /\ tokens[i].pos.line = errors[errIdx].line
                        /\ tokens'[i].pos = tokens[i].pos
        /\ pc' = "done" => NewlineCount(output') = NewlineCount(input) ]_vars

\* C4 witness: format has rewritten a token for its one diagnostic, in a text
\* of several lines that has a word on another line than the diagnostic's.
LocalityWitness ==
    /\ pc = "done"
    /\ Len(errors) = 1
    /\ NewlineCount(input) >= 1
    /\ \E t0 \in {T0} :
          /\ tokens # t0
          /\ \E i \in 1..Len(t0) :
                t0[i].type = "IDENTIFIER" /\ t0[i].pos.line # errors[1].line

IsContent(token) == token.type \notin {"SPACE", "TAB", "NEWLINE", "COMMENT", "EOF"}

\* The kinds and texts of the non-whitespace, non-comment tokens, in order.
ContentTexts(toks) ==
    LET sel == SelectSeq(toks, IsContent)
    IN  [i \in 1..Len(sel) |-> <<sel[i].type, sel[i].value>>]

\* C5 (content preservation): when format returns, the tokens it has replaced
\* are SPACE/TAB tokens replaced by SPACE/TAB tokens, and the non-whitespace,
\* non-comment tokens of the text it returns are, in kind, text and order,
\* those of its input.
ContentPreserved ==
    pc = "done" =>
        \A t0 \in {T0} :
            /\ Len(tokens) = Len(t0)
            /\ \A i \in 1..Len(t0) :
                  tokens[i] # t0[i] =>
                      /\ t0[i].type \in {"SPACE", "TAB"}
                      /\ tokens[i].type \in {"SPACE", "TAB"}
            /\ ContentTexts(tokenize(output).tokens) = ContentTexts(t0)

\* C5 witness: format returned a text that differs from its input, which has
\* at least two non-whitespace tokens.
ContentPreservedWitness ==
    /\ pc = "done"
    /\ output # input
    /\ Len(ContentTexts(T0)) >= 2

\* C6 (idempotence): with one diagnostic d, once a rule has rewritten the
\* stream for d no rule listing d's code can fix the rewritten stream for d,
\* and formatting the returned text again with d returns it unchanged.
Idempotent ==
    (pc = "done" /\ Len(errors) = 1) =>
        /\ output # input =>
              \A r \in 1..Len(rules) :
                  errors[1].error_code \in rules[r].errorCodes =>
                      ~canFix(rules[r], tokens, errors[1])
        /\ format(rules, output, errors) = output

\* A registered rule lists the error's code and its canFix holds on the stream.
Claimed(error, toks) ==
    \E r \in 1..Len(rules) :
        error.error_code \in rules[r].errorCodes /\ canFix(rules[r], toks, error)

\* C7 (unclaimed diagnostics): when no diagnostic of the list is claimed by a
\* rule (unknown code, or canFix false) format returns its input unchanged, and
\* in general format returns what it returns for the claimed diagnostics alone.
UnclaimedUntouched ==
    pc = "done" =>
        \A t0 \in {T0} :
            /\ (\A k \in 1..Len(errors) : ~Claimed(errors[k], t0)) => output = input
            /\ output = formatTokens(rules, t0, SelectSeq(errors, LAMBDA e : Claimed(e, t0)))

\* C7 witness: format returned for a list of a claimed diagnostic and one with
\* a code no rule lists, and the text was rewritten.
UnclaimedUntouchedWitness ==
    /\ pc = "done"
    /\ Len(errors) = 2
    /\ \E t0 \in {T0} : \E k \in 1..2 : Claimed(errors[k], t0)
    /\ \E k \in 1..2 : errors[k].error_code = "SPC_AFTER_POINTER"
    /\ output # input

\* C8 (SPACE_REPLACE_TAB repair): with one SPACE_REPLACE_TAB diagnostic located
\* at a run of spaces between a type token (int, char, void, const, identifier)
\* and an identifier, format returns the input with that run replaced by one
\* tab and nothing else changed.
SpaceReplaceTabRepair ==
    (pc = "done" /\ Len(errors) = 1 /\ errors[1].error_code = "SPACE_REPLACE_TAB") =>
        \A t0 \in {T0} : \A i \in {findTokenAtPosition(t0, errors[1].line, errors[1].column)} :
            ( /\ 1 < i /\ i < Len(t0)
              /\ t0[i].type = "SPACE"
              /\ t0[i - 1].type \in {"INT", "CHAR", "VOID", "CONST", "IDENTIFIER"}
              /\ t0[i + 1].type = "IDENTIFIER" ) =>
                  /\ tokens = [t0 EXCEPT ![i] = TabToken(t0[i])]
                  /\ output = reconstructSource([t0 EXCEPT ![i] = TabToken(t0[i])])

\* C9 (SPACE_BEFORE_FUNC repair): with one SPACE_BEFORE_FUNC diagnostic located
\* at the run of spaces between a return type (int, char, void, identifier) and
\* a function name followed by '(', format returns the input with that run
\* replaced by one tab and nothing else changed.
SpaceBeforeFuncRepair ==
    (pc = "done" /\ Len(errors) = 1 /\ errors[1].error_code = "SPACE_BEFORE_FUNC") =>
        \A t0 \in {T0} : \A i \in {findTokenAtPosition(t0, errors[1].line, errors[1].column)} :
            ( /\ 1 < i /\ i + 1 < Len(t0)
              /\ t0[i].type = "SPACE"
              /\ t0[i - 1].type \in {"INT", "CHAR", "VOID", "IDENTIFIER"}
              /\ t0[i + 1].type = "IDENTIFIER"
              /\ t0[i + 2].type = "LPARENTHESIS" ) =>
                  /\ tokens = [t0 EXCEPT ![i] = TabToken(t0[i])]
                  /\ output = reconstructSource([t0 EXCEPT ![i] = TabToken(t0[i])])

\* The stream without its i-th token.
Without(toks, i) == SubSeq(toks, 1, i - 1) \o SubSeq(toks, i + 1, Len(toks))

\* C10 (SPC_AFTER_POINTER repair): with one SPC_AFTER_POINTER diagnostic
\* located at the run of spaces between a pointer asterisk and an identifier,
\* the formatter with its default rules returns the input without that run.
SpcAfterPointerRepair ==
    (pc = "done" /\ Len(errors) = 1 /\ errors[1].error_code = "SPC_AFTER_POINTER") =>
        \A t0 \in {T0} : \A i \in {findTokenAtPosition(t0, errors[1].line, errors[1].column)} :
            ( /\ 1 < i /\ i < Len(t0)
              /\ t0[i].type = "SPACE"
              /\ t0[i - 1].type = "MULT"
              /\ t0[i + 1].type = "IDENTIFIER" ) =>
                  output = reconstructSource(Without(t0, i))

\* Tokens i and j of a line are separated by whitespace tokens only, one of
\* them a run of spaces.
WhitespaceBetween(lt, i, j) ==
    /\ \E k \in (i + 1)..(j - 1) : lt[k].type = "SPACE"
    /\ \A k \in (i + 1)..(j - 1) : lt[k].type \in {"SPACE", "TAB"}

\* C11 (whitespace tolerance): for a diagnostic of a rule, canFix holds whenever
\* the diagnostic's line has a type token and a following identifier separated
\* by one or more whitespace tokens with a run of spaces among them (for
\* SPACE_BEFORE_FUNC the identifier is followed by '('), whatever the number of
\* whitespace tokens between them.
WhitespaceTolerant ==
    pc = "done" =>
        \A t0 \in {T0} : \A e \in 1..Len(errors) : \A lt \in {lineTokens(t0, errors[e])} :
            /\ ( /\ errors[e].error_code = "SPACE_REPLACE_TAB"
                 /\ \E i, j \in 1..Len(lt) :
                        /\ lt[i].type \in {"IDENTIFIER", "INT", "CHAR", "VOID", "CONST"}
                        /\ lt[j].type = "IDENTIFIER"
                        /\ WhitespaceBetween(lt, i, j) )
                    => spaceReplaceTabCanFix(t0, errors[e])
            /\ ( /\ errors[e].error_code = "SPACE_BEFORE_FUNC"
                 /\ \E i, j \in 1..(Len(lt) - 1) :
                        /\ lt[i].type \in {"IDENTIFIER", "INT"}
                        /\ lt[j].type = "IDENTIFIER"
                        /\ lt[j + 1].type = "LPARENTHESIS"
                        /\ WhitespaceBetween(lt, i, j) )
                    => spaceBeforeFuncCanFix(t0, errors[e])

(***************************************************************************)
(* Strings of the checker's output: the String methods the code uses, on   *)
(* sequences of characters.                                                *)
(***************************************************************************)
\* The characters first..last of text (1-based), cut at the ends of text.
substring(text, first, last) ==
    SubSeq(text, IF first < 1 THEN 1 ELSE first, IF last > Len(text) THEN Len(text) ELSE last)

Take(text, n) == substring(text, 1, n)

Drop(text, n) == substring(text, n + 1, Len(text))

startsWith(text, str) == Len(str) <= Len(text) /\ Take(text, Len(str)) = str

endsWith(text, str) ==
    Len(str) <= Len(text) /\ Drop(text, Len(text) - Len(str)) = str

includes(text, str) ==
    \E i \in 0..(Len(text) - Len(str)) : substring(text, i + 1, i + Len(str)) = str

\* What \s and trim() take for white space, of the characters of the model.
Whitespace == {" ", "\t", "\n", "\r"}

Digits == {"0", "1", "2", "3", "4", "5", "6", "7", "8", "9"}

\* \w
WordChars == Lower \cup Upper \cup Digits \cup {"_"}

\* The length of the longest prefix of text made of characters of class.
spanLen(text, class) ==
    LET others == {i \in 1..Len(text) : text[i] \notin class}
    IN  IF others = {} THEN Len(text)
        ELSE (CHOOSE i \in others : \A j \in others : i <= j) - 1

trimStart(text) == Drop(text, spanLen(text, Whitespace))

RECURSIVE trimEnd(_)
trimEnd(text) ==
    IF text # <<>> /\ text[Len(text)] \in Whitespace
    THEN trimEnd(Take(text, Len(text) - 1))
    ELSE text

trim(text) == trimEnd(trimStart(text))

\* text.split(sep) for a separator of one character.
RECURSIVE split(_, _)
split(text, sep) ==
    LET n == spanLen(text, {c \in {text[i] : i \in 1..Len(text)} : c # sep})
    IN  IF n = Len(text) THEN <<text>>
        ELSE <<Take(text, n)>> \o split(Drop(text, n + 1), sep)

RECURSIVE join(_, _)
join(parts, sep) ==
    IF parts = <<>> THEN <<>>
    ELSE IF Len(parts) = 1 THEN parts[1]
    ELSE parts[1] \o sep \o join(Tail(parts), sep)

\* array.indexOf(element), 1-based; 0 stands for -1.
indexOf(array, element) ==
    LET hits == {i \in 1..Len(array) : array[i] = element}
    IN  IF hits = {} THEN 0 ELSE CHOOSE i \in hits : \A j \in hits : i <= j

digitValue(char) ==
    CASE char = "0" -> 0 [] char = "1" -> 1 [] char = "2" -> 2 [] char = "3" -> 3
      [] char = "4" -> 4 [] char = "5" -> 5 [] char = "6" -> 6 [] char = "7" -> 7
      [] char = "8" -> 8 [] char = "9" -> 9

\* parseInt of a run of decimal digits.
RECURSIVE parseInt(_)
parseInt(digits) ==
    IF digits = <<>> THEN 0
    ELSE 10 * parseInt(Take(digits, Len(digits) - 1)) + digitValue(digits[Len(digits)])

(***************************************************************************)
(* runNorminette and parseNorminetteOutput.                                *)
(***************************************************************************)
OKMark == <<":", " ", "O", "K", "!">>

ErrorMark == <<":", " ", "E", "r", "r", "o", "r", "!">>

ErrorPrefix == <<"E", "r", "r", "o", "r", ":", " ">>

NoMatch == [matched |-> FALSE]

\* line.match(/^Error:\s+(\w+)\s+\(line:\s*(\d+),\s*col:\s*(\d+)\):\s*(.+)$/):
\* the groups 1 to 4, or null.  The last group is what \s* leaves; when \s*
\* leaves nothing it gives back its last character.  A dot takes no line end.
matchErrorLine(text) ==
    LET a  == Drop(text, 6)
        n1 == spanLen(a, Whitespace)
        b  == Drop(a, n1)
        n2 == spanLen(b, WordChars)
        c  == Drop(b, n2)
        n3 == spanLen(c, Whitespace)
        d  == Drop(c, n3)
        e  == Drop(d, 6)
        f  == Drop(e, spanLen(e, Whitespace))
        n4 == spanLen(f, Digits)
        g  == Drop(f, n4)
        h  == Drop(g, 1)
        i  == Drop(h, spanLen(h, Whitespace))
        j  == Drop(i, 4)
        k  == Drop(j, spanLen(j, Whitespace))
        n5 == spanLen(k, Digits)
        l  == Drop(k, n5)
        m  == Drop(l, 2)
        r  == Drop(m, spanLen(m, Whitespace))
        group == IF r # <<>> THEN r ELSE Drop(m, Len(m) - 1)
    IN  IF /\ startsWith(text, <<"E", "r", "r", "o", "r", ":">>)
           /\ n1 >= 1
           /\ n2 >= 1
           /\ n3 >= 1
           /\ startsWith(d, <<"(", "l", "i", "n", "e", ":">>)
           /\ n4 >= 1
           /\ startsWith(g, <<",">>)
           /\ startsWith(i, <<"c", "o", "l", ":">>)
           /\ n5 >= 1
           /\ startsWith(l, <<")", ":">>)
           /\ m # <<>>
           /\ \A x \in 1..Len(group) : group[x] \notin {"\n", "\r"}
        THEN [matched |-> TRUE, code |-> Take(b, n2), lineText |-> Take(f, n4),
              colText |-> Take(k, n5), message |-> group]
        ELSE NoMatch

isSectionLine(text) == includes(text, ErrorMark) \/ includes(text, OKMark)

\* The loop that looks for the file of an error line, from index i down
\* (1-based; the source starts it at lines.indexOf(line) - 1).
RECURSIVE currentFileFrom(_, _, _)
currentFileFrom(ls, i, target) ==
    IF i < 1 THEN target
    ELSE IF isSectionLine(ls[i]) THEN trim(split(ls[i], ":")[1])
    ELSE currentFileFrom(ls, i - 1, target)

\* The lookup with the loop started at the line's own index.
currentFileAtLine(ls, i, target) == currentFileFrom(ls, i - 1, target)

currentFile(ls, i, target) == currentFileFrom(ls, indexOf(ls, ls[i]) - 1, target)

NorminetteError(file, m) ==
    [file |-> file, line |-> parseInt(m.lineText), column |-> parseInt(m.colText),
     error_type |-> m.code, error_code |-> m.code, description |-> trim(m.message)]

\* One iteration of parseNorminetteOutput's loop, for the line ls[i]: the
\* errors and the count of files after it.
parseLine(ls, i, acc, target) ==
    IF includes(ls[i], OKMark)
    THEN [errors |-> acc.errors, filesChecked |-> acc.filesChecked + 1]
    ELSE IF includes(ls[i], ErrorMark)
    THEN [errors |-> acc.errors, filesChecked |-> acc.filesChecked + 1]
    ELSE IF startsWith(ls[i], ErrorPrefix) /\ matchErrorLine(ls[i]).matched
    THEN [errors |-> Append(acc.errors,
                            NorminetteError(currentFile(ls, i, target), matchErrorLine(ls[i]))),
          filesChecked |-> acc.filesChecked]
    ELSE acc

\* The NorminetteResult parseNorminetteOutput returns.
NorminetteResult(errs, checked) ==
    [status |-> IF Len(errs) > 0 THEN "Error" ELSE "OK",
     files_checked |-> checked,
     errors |-> errs,
     summary |-> <<"Checked ", checked, " files, found ", Len(errs), " errors">>]

RECURSIVE parseLines(_, _, _, _)
parseLines(ls, i, acc, target) ==
    IF i > Len(ls) THEN acc
    ELSE parseLines(ls, i + 1, parseLine(ls, i, acc, target), target)

parseNorminetteOutput(text, target) ==
    LET ls == split(trim(text), "\n")
        acc == parseLines(ls, 1, [errors |-> <<>>, filesChecked |-> 0], target)
    IN  NorminetteResult(acc.errors, acc.filesChecked)

\* error.stdout with nothing else to fall back on.
failureOutputStdoutOnly(error) == error.stdout

\* error.stdout || error.stderr || error.message
failureOutput(error) ==
    IF error.stdout # <<>> THEN error.stdout
    ELSE IF error.stderr # <<>> THEN error.stderr
    ELSE error.message

(***************************************************************************)
(* One call runNorminette(targetPath): the checker process ends, with or   *)
(* without a failure, and what it printed is parsed line by line.          *)
(***************************************************************************)
MaxLines == 4

\* An error line of the checker.
ErrorLineA ==
    <<"E", "r", "r", "o", "r", ":", " ", "A", " ", "(", "l", "i", "n", "e", ":",
        " ", "1", ",", " ", "c", "o", "l", ":", " ", "2", ")", ":", " ", "m">>

CheckerLines ==
    { <<"a", ".", "c", ":", " ", "E", "r", "r", "o", "r", "!">>,
      <<"b", ".", "c", ":", " ", "O", "K", "!">>,
      ErrorLineA,
      <<"E", "r", "r", "o", "r", ":", " ", "B", "_", "1", " ", " ", "(", "l", "i",
          "n", "e", ":", " ", " ", "1", "2", ",", " ", "c", "o", "l", ":", " ", " ", "3",
          ")", ":", "\t", "n", " ", "o">>,
      <<"E", "r", "r", "o", "r", ":", " ", "A", " ", "(", "l", "i", "n", "e", ":",
          " ", "1", ",", " ", "c", "o", "l", ":", " ", "2", ")", ":", " ", "b", ":", " ",
          "O", "K", "!", " ", "m">>,
      <<"E", "r", "r", "o", "r", ":", " ", "A", " ", "(", "l", "i", "n", "e", ":",
          " ", "x", ")">>,
      <<"N", "o", "t", "i", "c", "e", ":", " ", "m">> }

CheckerOutputs ==
    {join(ls, <<"\n">>) : ls \in UNION {[1..n -> CheckerLines] : n \in 1..MaxLines}}

\* What a failed process leaves in stdout, stderr or the error's message.
FailureTexts ==
    { <<>>,
      ErrorLineA,
      <<"s", "h", ":", " ", "1", ":", " ", "n", "o", "r", "m", "i", "n", "e", "t",
          "t", "e", ":", " ", "n", "o", "t", " ", "f", "o", "u", "n", "d">> }

InitParse ==
    /\ targetPath = <<"d">>
    /\ \/ /\ \E out \in CheckerOutputs \cup {<<>>, <<"\n">> \o ErrorLineA \o <<"\n">>} :
                exec = [failed |-> FALSE, stdout |-> out, stderr |-> <<>>, message |-> <<>>]
       \/ exec \in [failed : {TRUE}, stdout : FailureTexts, stderr : FailureTexts,
                    message : FailureTexts]
    /\ lines = <<>>
    /\ lineIdx = 1
    /\ filesChecked = 0
    /\ result = [status |-> "OK", files_checked |-> 0, errors |-> <<>>, summary |-> <<>>]
    /\ errors = <<>>
    /\ output = <<>>
    /\ pc = "runNorminette"
    /\ input = <<>>
    /\ position = 0
    /\ line = 1
    /\ column = 1
    /\ tokens = <<>>
    /\ rules = <<>>
    /\ ruleIdx = 1
    /\ errIdx = 1
    /\ IdlePipeline

\* execSync returned: parseNorminetteOutput(output, targetPath) starts.
ExecReturns ==
    /\ pc = "runNorminette"
    /\ ~exec.failed
    /\ output' = exec.stdout
    /\ lines' = split(trim(exec.stdout), "\n")
    /\ pc' = "parse"
    /\ UNCHANGED <<formatVars, errors, rules, targetPath, exec, lineIdx, filesChecked,
                   result, pipelineVars>>

\* execSync threw and left some text: parseNorminetteOutput starts on it.
ExecFails ==
    /\ pc = "runNorminette"
    /\ exec.failed
    /\ failureOutput(exec) # <<>>
    /\ output' = failureOutput(exec)
    /\ lines' = split(trim(failureOutput(exec)), "\n")
    /\ pc' = "parse"
    /\ UNCHANGED <<formatVars, errors, rules, targetPath, exec, lineIdx, filesChecked,
                   result, pipelineVars>>

\* execSync threw and left nothing: runNorminette throws.
ExecFailsEmpty ==
    /\ pc = "runNorminette"
    /\ exec.failed
    /\ failureOutput(exec) = <<>>
    /\ output' = failureOutput(exec)
    /\ pc' = "raised"
    /\ UNCHANGED <<formatVars, errors, rules, checkerVars, pipelineVars>>

\* One iteration of the loop over the lines.
ParseLine ==
    /\ pc = "parse"
    /\ lineIdx <= Len(lines)
    /\ \E acc \in {parseLine(lines, lineIdx,
                             [errors |-> errors, filesChecked |-> filesChecked], targetPath)} :
           /\ errors' = acc.errors
           /\ filesChecked' = acc.filesChecked
    /\ lineIdx' = lineIdx + 1
    /\ UNCHANGED <<formatVars, rules, output, pc, targetPath, exec, lines, result,
                   pipelineVars>>

\* The loop is over: the result is returned.
ParseReturn ==
    /\ pc = "parse"
    /\ lineIdx > Len(lines)
    /\ result' = NorminetteResult(errors, filesChecked)
    /\ pc' = "parsed"
    /\ UNCHANGED <<formatVars, errors, rules, output, targetPath, exec, lines, lineIdx,
                   filesChecked, pipelineVars>>

NextParse == ExecReturns \/ ExecFails \/ ExecFailsEmpty \/ ParseLine \/ ParseReturn

SpecParse == InitParse /\ [][NextParse]_vars

(***************************************************************************)
(* The claims about the checker's output, under SpecParse.                 *)
(***************************************************************************)
\* The matches of the lines of the output that have the form of an error
\* line, in order.
ErrorLines ==
    LET sel == SelectSeq(lines, LAMBDA t : matchErrorLine(t).matched)
    IN  [k \in 1..Len(sel) |-> matchErrorLine(sel[k])]

\* C18 (parsing): every line of the form
\* 'Error: <CODE> (line: <N>, col: <M>): <message>' gives exactly one diagnostic
\* with that code, line, column and message, in output order; the other lines
\* are skipped; there are as many diagnostics as lines of that form.
EveryErrorLineParsed ==
    pc = "parsed" =>
        \A ms \in {ErrorLines} :
            /\ Len(result.errors) = Len(ms)
            /\ \A k \in 1..Len(ms) :
                  /\ result.errors[k].error_code = ms[k].code
                  /\ result.errors[k].line = parseInt(ms[k].lineText)
                  /\ result.errors[k].column = parseInt(ms[k].colText)
                  /\ result.errors[k].description = trim(ms[k].message)

\* The indices of the lines the parser turned into diagnostics, in order.
DiagnosticLineIndices ==
    SelectSeq([i \in 1..Len(lines) |-> i],
              LAMBDA i : /\ ~isSectionLine(lines[i])
                         /\ startsWith(lines[i], ErrorPrefix)
                         /\ matchErrorLine(lines[i]).matched)

\* C19 (file of a diagnostic): the file of every diagnostic is the path of the
\* nearest section line before the diagnostic's own line, also when the same
\* error line occurs in several sections; with no section line before it, the
\* file is the target path.
FileOfNearestSection ==
    pc = "parsed" =>
        \A idx \in {DiagnosticLineIndices} :
            /\ Len(result.errors) = Len(idx)
            /\ \A k \in 1..Len(idx) :
                  result.errors[k].file = currentFileAtLine(lines, idx[k], targetPath)

\* C20 (failing checker): when execSync fails, runNorminette parses stdout,
\* else stderr, else the error's message, and returns the parsed result; it
\* throws only when all three are empty; a failure whose text has no diagnostic
\* line is returned as status OK with no errors.
ToleratesFailure ==
    /\ pc = "raised" =>
          /\ exec.failed
          /\ exec.stdout = <<>> /\ exec.stderr = <<>> /\ exec.message = <<>>
    /\ (exec.failed /\ pc \in {"parse", "parsed"}) =>
          /\ exec.stdout # <<>> => output = exec.stdout
          /\ (exec.stdout = <<>> /\ exec.stderr # <<>>) => output = exec.stderr
          /\ (exec.stdout = <<>> /\ exec.stderr = <<>>) => output = exec.message
    /\ (exec.failed /\ pc = "parsed") =>
          /\ result = parseNorminetteOutput(output, targetPath)
          /\ DiagnosticLineIndices = <<>> =>
                (result.status = "OK" /\ result.errors = <<>>)

\* A failed run that left only a message, without diagnostic lines, was
\* returned as OK.
ToleratesFailureWitness ==
    /\ pc = "parsed"
    /\ exec.failed
    /\ exec.stdout = <<>> /\ exec.stderr = <<>> /\ exec.message # <<>>
    /\ result.status = "OK"
    /\ result.errors = <<>>

(***************************************************************************)
(* The 42 header (header generator) and the structural fixes.              *)
(***************************************************************************)
\* The character char, count times.
Rep(char, count) == [i \in 1..count |-> char]

\* text.padEnd(width)
padEnd(text, width) ==
    IF Len(text) >= width THEN text ELSE text \o Rep(" ", width - Len(text))

HeaderBorder ==
    <<"/", "*", " ">> \o Rep("*", 74) \o <<" ", "*", "/">>

HeaderEmpty ==
    <<"/", "*">> \o Rep(" ", 76) \o <<"*", "/">>

HeaderTitle ==
    <<"/", "*">> \o Rep(" ", 56) \o <<":", ":", ":">> \o Rep(" ", 6) \o Rep(":", 8)
    \o <<" ", " ", " ", "*", "/">>

HeaderDecoration5 ==
    <<"/", "*">> \o Rep(" ", 52) \o <<"+", ":", "+", " ", "+", ":", "+">> \o Rep(" ", 9)
    \o <<"+", ":", "+">> \o Rep(" ", 5) \o <<"*", "/">>

HeaderDecoration7 ==
    <<"/", "*">> \o Rep(" ", 48)
    \o <<"+", "#", "+", "#", "+", "#", "+", "#", "+", "#", "+", " ", " ", " ", "+", "#", "+">>
    \o Rep(" ", 11) \o <<"*", "/">>

FilenamePrefix == <<"/", "*", " ", " ", " ">>

FilenameSuffix == 
    <<":", "+", ":">> \o Rep(" ", 6) \o <<":", "+", ":">> \o Rep(" ", 4)
    \o <<":", "+", ":", " ", " ", " ", "*", "/">>

AuthorPrefix == <<"/", "*", " ", " ", " ", "B", "y", ":", " ">>

AuthorSuffix ==
    <<"+", "#", "+", " ", " ", "+", ":", "+">> \o Rep(" ", 7) \o <<"+", "#", "+">>
    \o Rep(" ", 8) \o <<"*", "/">>

CreatedPrefix == 
    <<"/", "*", " ", " ", " ", "C", "r", "e", "a", "t", "e", "d", ":", " ">>

CreatedSuffix ==
    <<"#", "+", "#">> \o Rep(" ", 4) \o <<"#", "+", "#">> \o Rep(" ", 13)
    \o <<"*", "/">>

UpdatedPrefix == 
    <<"/", "*", " ", " ", " ", "U", "p", "d", "a", "t", "e", "d", ":", " ">>

UpdatedSuffix ==
    <<" ", "#", "#", "#", " ", " ", " ">> \o Rep("#", 8) \o <<".", "f", "r">>
    \o Rep(" ", 7) \o <<"*", "/">>

\* The 11 lines of a header, for the fields of a Header42.
generateHeaderLines(header) ==
    LET filename == IF Len(header.filename) > 51 THEN Take(header.filename, 51)
                    ELSE header.filename
        authorInfo == header.username \o <<" ", "<">> \o header.email \o <<">">>
        createdInfo == header.createdDate \o <<" ", "b", "y", " ">> \o header.createdBy
        updatedInfo == header.updatedDate \o <<" ", "b", "y", " ">> \o header.updatedBy
    IN  << HeaderBorder,
           HeaderEmpty,
           HeaderTitle,
           FilenamePrefix \o padEnd(filename, 51) \o FilenameSuffix,
           HeaderDecoration5,
           AuthorPrefix \o padEnd(authorInfo, 43) \o AuthorSuffix,
           HeaderDecoration7,
           CreatedPrefix \o padEnd(createdInfo, 41) \o CreatedSuffix,
           UpdatedPrefix \o padEnd(updatedInfo, 39) \o UpdatedSuffix,
           HeaderEmpty,
           HeaderBorder >>

\* path.basename(filePath)
basename(filePath) ==
    LET parts == split(filePath, "/") IN parts[Len(parts)]

\* getSystemInfo() and getFileCreationTime(filePath) of the machine of the model.
SystemInfo ==
    [username |-> <<"u">>,
     email |-> <<"u", "@", "s", "t", "u", "d", "e", "n", "t", ".", "4", "2", ".", "f", "r">>,
     currentTime |-> <<"2", "0", "2", "6", "/", "1", "1", "/", "0", "2", " ", "1", "0", ":", "0", "0", ":", "0", "0">>]

FileCreationTime ==
    <<"2", "0", "2", "6", "/", "1", "1", "/", "0", "1", " ", "0", "9", ":", "0", "0", ":", "0", "0">>

generate42Header(filePath) ==
    LET header == [filename |-> basename(filePath),
                   username |-> SystemInfo.username,
                   email |-> SystemInfo.email,
                   createdDate |-> FileCreationTime,
                   createdBy |-> SystemInfo.username,
                   updatedDate |-> SystemInfo.currentTime,
                   updatedBy |-> SystemInfo.username]
    IN  join(generateHeaderLines(header), <<"\n">>) \o <<"\n">>

\* /^\/\*.*\*\/$/ on one line.
headerPattern(text) ==
    /\ Len(text) >= 4
    /\ startsWith(text, <<"/", "*">>)
    /\ endsWith(text, <<"*", "/">>)
    /\ \A i \in 1..Len(text) : text[i] \notin {"\n", "\r"}

\* /^<prefix>.{width}<suffix>$/ on one line.
fieldPattern(text, prefix, width, suffix) ==
    /\ Len(text) = Len(prefix) + width + Len(suffix)
    /\ startsWith(text, prefix)
    /\ endsWith(text, suffix)
    /\ \A i \in 1..Len(text) : text[i] \notin {"\n", "\r"}

TitleTail == Drop(HeaderTitle, spanLen(Drop(HeaderTitle, 2), {" "}) + 2)

has42Header(text) ==
    LET ls == split(text, "\n")
    IN  /\ Len(ls) >= 11
        /\ ls[1] = HeaderBorder
        /\ ls[11] = HeaderBorder
        /\ \A i \in 1..11 : headerPattern(ls[i])
        /\ endsWith(ls[3], TitleTail)
        /\ Len(ls[3]) > Len(TitleTail)
        /\ ls[3][Len(ls[3]) - Len(TitleTail)] \in Whitespace
        /\ fieldPattern(ls[4], FilenamePrefix, 51, FilenameSuffix)
        /\ fieldPattern(ls[6], AuthorPrefix, 43, AuthorSuffix)
        /\ fieldPattern(ls[8], CreatedPrefix, 41, CreatedSuffix)
        /\ fieldPattern(ls[9], UpdatedPrefix, 39, UpdatedSuffix)

\* The group of a lazy (.+?) that is followed by \s+ and then by mark, in text:
\* the shortest one; <<>> when nothing matches.
lazyGroup(text, mark) ==
    LET ends == {n \in 1..Len(text) :
                    /\ \A i \in 1..n : text[i] \notin {"\n", "\r"}
                    /\ spanLen(Drop(text, n), Whitespace) >= 1
                    /\ \E k \in 1..spanLen(Drop(text, n), Whitespace) :
                           startsWith(Drop(text, n + k), mark)}
    IN  IF ends = {} THEN <<>> ELSE Take(text, CHOOSE n \in ends : \A o \in ends : n <= o)

\* /(\d{4}\/\d{2}\/\d{2} \d{2}:\d{2}:\d{2})/ at the start of text.
isDateTime(text) ==
    /\ Len(text) = 19
    /\ \A i \in {1, 2, 3, 4, 6, 7, 9, 10, 12, 13, 15, 16, 18, 19} : text[i] \in Digits
    /\ text[5] = "/" /\ text[8] = "/" /\ text[11] = " " /\ text[14] = ":" /\ text[17] = ":"

\* The date and the name of a 'Created:' or 'Updated:' line, after its prefix.
datedBy(text, prefix, mark) ==
    LET rest == Drop(text, Len(prefix))
        name == lazyGroup(Drop(rest, 23), mark)
    IN  IF /\ startsWith(text, prefix)
           /\ isDateTime(Take(rest, 19))
           /\ substring(rest, 20, 23) = <<" ", "b", "y", " ">>
           /\ name # <<>>
        THEN [date |-> Take(rest, 19), by |-> trim(name)]
        ELSE [date |-> <<>>, by |-> <<>>]

\* The user and the email of the 'By:' line: (.+?) <(.+?)>\s+\+#\+
authorOf(text) ==
    LET rest == Drop(text, Len(AuthorPrefix))
        opens == {n \in 1..Len(rest) :
                     /\ substring(rest, n + 1, n + 2) = <<" ", "<">>
                     /\ \E c \in 1..Len(rest) :
                            /\ c > n + 3
                            /\ rest[c] = ">"
                            /\ spanLen(Drop(rest, c), Whitespace) >= 1
                            /\ startsWith(Drop(rest, c + spanLen(Drop(rest, c), Whitespace)),
                                          <<"+", "#", "+">>)}
        n0 == CHOOSE n \in opens : \A o \in opens : n <= o
        closes == {c \in (n0 + 4)..Len(rest) :
                      /\ rest[c] = ">"
                      /\ spanLen(Drop(rest, c), Whitespace) >= 1
                      /\ startsWith(Drop(rest, c + spanLen(Drop(rest, c), Whitespace)),
                                    <<"+", "#", "+">>)}
        c0 == CHOOSE c \in closes : \A o \in closes : c <= o
    IN  IF startsWith(text, AuthorPrefix) /\ opens # {}
        THEN [username |-> trim(Take(rest, n0)), email |-> trim(substring(rest, n0 + 3, c0 - 1))]
        ELSE [username |-> <<>>, email |-> <<>>]

\* extractHeaderInfo on a content that has a header.
extractHeaderInfo(text) ==
    LET ls == split(text, "\n")
        file == IF startsWith(ls[4], FilenamePrefix)
                THEN trim(lazyGroup(Drop(ls[4], Len(FilenamePrefix)), <<":", "+", ":">>))
                ELSE <<>>
        author == authorOf(ls[6])
        created == datedBy(ls[8], CreatedPrefix, <<"#", "+", "#">>)
        updated == datedBy(ls[9], UpdatedPrefix, <<"#", "#", "#">>)
    IN  [filename |-> file, username |-> author.username, email |-> author.email,
         createdDate |-> created.date, createdBy |-> created.by,
         updatedDate |-> updated.date, updatedBy |-> updated.by]

update42Header(text, filePath) ==
    IF ~has42Header(text) THEN generate42Header(filePath)
    ELSE LET updatedHeader == [extractHeaderInfo(text) EXCEPT
                                  !.updatedDate = SystemInfo.currentTime,
                                  !.updatedBy = SystemInfo.username]
             ls == split(text, "\n")
         IN  join(generateHeaderLines(updatedHeader) \o substring(ls, 12, Len(ls)), <<"\n">>)

DotC == <<".", "c">>

DotH == <<".", "h">>

\* headerFixer.canFix
headerFixerCanFix(error, text, filePath) ==
    /\ error.error_code = "INVALID_HEADER"
    /\ endsWith(filePath, DotC) \/ endsWith(filePath, DotH)

\* headerFixer.apply
headerFixerApply(text, filePath, error) ==
    IF has42Header(text) THEN update42Header(text, filePath)
    ELSE LET header == generate42Header(filePath)
             ls == split(text, "\n")
             first == {i \in 1..Len(ls) : i <= 15 /\ includes(ls[i], <<"*", "/">>)}
             endIndex == CHOOSE i \in first : \A o \in first : i <= o
             remainingContent == join(substring(ls, endIndex + 1, Len(ls)), <<"\n">>)
         IN  IF startsWith(ls[1], <<"/", "*">>) /\ first # {}
             THEN header \o (IF trim(remainingContent) # <<>>
                             THEN <<"\n">> \o remainingContent ELSE <<>>)
             ELSE header \o <<"\n">> \o text

\* The loop of applyStructuralFixes over the errors the header fixer can handle.
RECURSIVE applyFixableErrors(_, _, _)
applyFixableErrors(acc, filePath, fixable) ==
    IF fixable = <<>> THEN acc
    ELSE applyFixableErrors(
             [content |-> headerFixerApply(acc.content, filePath, Head(fixable)),
              applied |-> Append(acc.applied, <<"HEADER_FIXER", ":", Head(fixable).error_code>>)],
             filePath, Tail(fixable))

\* applyStructuralFixes: structuralFixers holds the header fixer only.
applyStructuralFixes(text, filePath, errs) ==
    applyFixableErrors(
        [content |-> text, applied |-> <<>>], filePath,
        SelectSeq(errs, LAMBDA error : /\ error.error_code \in {"INVALID_HEADER"}
                                       /\ headerFixerCanFix(error, text, filePath)))

(***************************************************************************)
(* The reformat stage: clang-format, or the built-in whitespace fixes.     *)
(***************************************************************************)
\* The characters of text whose index is not in removed.
withoutIndices(text, removed) ==
    LET kept == SelectSeq([i \in 1..Len(text) |-> i], LAMBDA i : i \notin removed)
    IN  [k \in 1..Len(kept) |-> text[kept[k]]]

\* The line terminators that can stand inside a piece of text.split('\n').
LineTerminators == {"\r"}

\* Index i is where a line of text starts / ends (^ and $ with the m flag).
atLineStart(text, i) == i = 1 \/ text[i - 1] \in LineTerminators

atLineEnd(text, i) == i = Len(text) \/ text[i + 1] \in LineTerminators

\* The index of the last character of the run of spaces and tabs that holds i.
runEnd(text, i) == i + spanLen(Drop(text, i), {" ", "\t"})

\* The index of the first character of that run.
runStart(text, i) ==
    LET others == {k \in 1..i : text[k] \notin {" ", "\t"}}
    IN  IF others = {} THEN 1
        ELSE (CHOOSE k \in others : \A j \in others : j <= k) + 1

\* A replacement that never crosses a '\n', done on the pieces between them.
onEachLine(Replace(_), text) ==
    LET ls == split(text, "\n")
    IN  join([i \in 1..Len(ls) |-> Replace(ls[i])], <<"\n">>)

\* .replace(/[ \t]+$/gm, '') between two '\n'.
stripTrailingWhitespaceLine(text) ==
    withoutIndices(text, {i \in 1..Len(text) : /\ text[i] \in {" ", "\t"}
                                               /\ atLineEnd(text, runEnd(text, i))})

stripTrailingWhitespace(text) == onEachLine(stripTrailingWhitespaceLine, text)

\* .replace(/^[ \t]+$/gm, '') between two '\n'.
stripBlankLine(text) ==
    withoutIndices(text, {i \in 1..Len(text) : /\ text[i] \in {" ", "\t"}
                                               /\ atLineStart(text, runStart(text, i))
                                               /\ atLineEnd(text, runEnd(text, i))})

stripBlankLines(text) == onEachLine(stripBlankLine, text)

\* .replace(/^    /gm, '\t') between two '\n': the first of the four spaces
\* at a line start becomes the tab, the other three go.
indentToTabLine(text) ==
    LET starts == {i \in 1..Len(text) :
                      /\ atLineStart(text, i)
                      /\ substring(text, i, i + 3) = <<" ", " ", " ", " ">>}
    IN  withoutIndices([i \in 1..Len(text) |-> IF i \in starts THEN "\t" ELSE text[i]],
                       UNION {(i + 1)..(i + 3) : i \in starts})

indentToTab(text) == onEachLine(indentToTabLine, text)

\* .replace(/  +/g, ' ') between two '\n'.
collapseSpacesLine(text) ==
    withoutIndices(text, {i \in 2..Len(text) : text[i] = " " /\ text[i - 1] = " "})

collapseSpaces(text) == onEachLine(collapseSpacesLine, text)

\* The four replaces, each one on the finished result of the one before.
fixAllWhitespaceIssues(text) ==
    CHOOSE fixed \in
        { collapseSpaces(fixed3) : fixed3 \in
            { indentToTab(fixed2) : fixed2 \in
                { stripBlankLines(fixed1) : fixed1 \in {stripTrailingWhitespace(text)} } } } :
        TRUE

checkClangFormatAvailability(e) == e.available

\* applyClangFormat: the formatted text, or an exception.  The temp config is
\* written, clang-format runs on the content, the temp config is removed.
applyClangFormat(text, e) ==
    IF ~checkClangFormatAvailability(e) THEN [threw |-> TRUE, formatted |-> <<>>]
    ELSE IF ~e.configWritten THEN [threw |-> TRUE, formatted |-> <<>>]
    ELSE IF e.exec # "ok" THEN [threw |-> TRUE, formatted |-> <<>>]
    ELSE IF ~e.unlinked THEN [threw |-> TRUE, formatted |-> <<>>]
    ELSE [threw |-> FALSE, formatted |-> e.formatted]

\* A wrapper without the catch: clang-format's exception goes through.
applyClangFormatUnguarded(text, e) ==
    [threw |-> applyClangFormat(text, e).threw,
     formatted |-> applyClangFormat(text, e).formatted,
     usedClangFormat |-> TRUE]

applyClangFormatWithFallback(text, e) ==
    IF ~applyClangFormat(text, e).threw
    THEN [threw |-> FALSE, formatted |-> applyClangFormat(text, e).formatted,
          usedClangFormat |-> TRUE]
    ELSE [threw |-> FALSE, formatted |-> fixAllWhitespaceIssues(text),
          usedClangFormat |-> FALSE]

(***************************************************************************)
(* One call fixNorminetteErrors(targetPath) on a small file system: a      *)
(* directory with two C files and one other file.  The checker and         *)
(* clang-format are processes outside the program: what they answer is     *)
(* chosen among the answers they can give on the text they are run on.     *)
(***************************************************************************)
parseVars == <<exec, lines, lineIdx, filesChecked>>

otherVars == <<formatVars, rules, output, targetPath, parseVars>>

Dir == <<"d">>

\* fs.readdirSync(Dir)
DirItems == <<<<"a", ".", "c">>, <<"b", ".", "h">>, <<"n">>>>

\* path.join(dir, item)
pathJoin(dir, item) == dir \o <<"/">> \o item

FileA == pathJoin(Dir, DirItems[1])

FileB == pathJoin(Dir, DirItems[2])

\* fs.statSync(path).isDirectory()
isDirectory(path) == path = Dir

\* getAllCFiles(dir); the directory of the model has no sub-directory.
getAllCFiles(dir) ==
    SelectSeq([i \in 1..Len(DirItems) |-> pathJoin(dir, DirItems[i])],
              LAMBDA f : ~isDirectory(f) /\ (endsWith(f, DotC) \/ endsWith(f, DotH)))

Targets == {Dir, FileA, pathJoin(Dir, DirItems[3])}

ContentsA == {<<"i", "n", "t", " ", "x">>, <<"i", "n", "t", "\t", "x">>, <<"x", " ", " ", "\n">>, <<>>}

ContentsB == {<<" ", " ", " ", " ", "x", " ", " ", "x">>}

Permissions ==
    { [readable |-> TRUE, writable |-> TRUE],
      [readable |-> TRUE, writable |-> FALSE],
      [readable |-> FALSE, writable |-> FALSE] }

\* A diagnostic of the checker, with the fields format and the fixers read.
Diagnostic(path, code, l) ==
    [file |-> path, line |-> l, column |-> 1, error_type |-> code, error_code |-> code,
     description |-> <<>>]

\* What the checker can report on a file with this text: nothing, or one
\* diagnostic on its first or last line; nothing on a text with a 42 header.
DiagnosticLists(text, path) ==
    IF has42Header(text) THEN {<<>>}
    ELSE {<<>>} \cup
         { <<Diagnostic(path, code, l)>> :
           code \in {"SPACE_REPLACE_TAB", "INVALID_HEADER"}, l \in {1, NewlineCount(text) + 1} }

\* What runNorminette(path) can return for a file of the disk.
CheckerReports(text, path) ==
    {NorminetteResult(errs, 1) : errs \in DiagnosticLists(text, path)}

\* What the checker can report on a file when it is run on a whole target.
TargetLists(text, path) == {<<>>, <<Diagnostic(path, "SPACE_REPLACE_TAB", 1)>>}

\* What runNorminette(targetPath) can return.
TargetReports(d, target) ==
    IF target = Dir
    THEN {NorminetteResult(la \o lb, 2) :
              la \in TargetLists(d[FileA], FileA), lb \in TargetLists(d[FileB], FileB)}
    ELSE IF target = FileA
    THEN {NorminetteResult(la, 1) : la \in TargetLists(d[FileA], FileA)}
    ELSE {NorminetteResult(<<>>, 0)}

\* The texts clang-format can print for a text: the text itself, or one of a
\* few layouts with the same characters apart from white space.
ClangLayouts == {<<"i", "n", "t", " ", "x">>, <<"i", "n", "t", "\t", "x">>, <<"x", "\n">>}

Inked(text) == SelectSeq(text, LAMBDA char : char \notin Whitespace)

ClangOutputs(text) == {text} \cup {c \in ClangLayouts : Inked(c) = Inked(text)}

\* What can happen to the processes and the temp config of one applyClangFormat.
ClangEnvs(text) ==
    { [content |-> text, available |-> FALSE, configWritten |-> FALSE, exec |-> "none",
       formatted |-> <<>>, unlinked |-> FALSE],
      [content |-> text, available |-> TRUE, configWritten |-> FALSE, exec |-> "none",
       formatted |-> <<>>, unlinked |-> FALSE],
      [content |-> text, available |-> TRUE, configWritten |-> TRUE, exec |-> "error",
       formatted |-> <<>>, unlinked |-> TRUE],
      [content |-> text, available |-> TRUE, configWritten |-> TRUE, exec |-> "timeout",
       formatted |-> <<>>, unlinked |-> TRUE] }
    \cup
    [content : {text}, available : {TRUE}, configWritten : {TRUE}, exec : {"ok"},
     formatted : ClangOutputs(text), unlinked : BOOLEAN]

NoLocals ==
    /\ content = <<>>
    /\ originalContent = <<>>
    /\ fixes = <<>>
    /\ initialErrors = <<>>
    /\ env = <<>>
    /\ formatResult = <<>>
    /\ errors = <<>>

InitFix ==
    /\ targetPath \in Targets
    /\ \E a \in ContentsA, b \in ContentsB : disk = (FileA :> a) @@ (FileB :> b)
    /\ \E p \in Permissions :
           perm = (FileA :> p) @@ (FileB :> [readable |-> TRUE, writable |-> TRUE])
    /\ files = <<>>
    /\ fileIdx = 1
    /\ NoLocals
    /\ fixResults = <<>>
    /\ rules = formatter
    /\ result = [status |-> "OK", files_checked |-> 0, errors |-> <<>>, summary |-> <<>>]
    /\ exec = [failed |-> FALSE, stdout |-> <<>>, stderr |-> <<>>, message |-> <<>>]
    /\ lines = <<>>
    /\ lineIdx = 1
    /\ filesChecked = 0
    /\ input = <<>>
    /\ position = 0
    /\ line = 1
    /\ column = 1
    /\ tokens = <<>>
    /\ ruleIdx = 1
    /\ errIdx = 1
    /\ output = <<>>
    /\ pc = "fix"

\* The file fixFileErrors works on.
filePath == files[fileIdx]

\* fixNorminetteErrors up to its loop: the first run of the checker, the
\* result record, the files to fix.
FixStart ==
    /\ pc = "fix"
    /\ \E norminetteResult \in TargetReports(disk, targetPath) :
           /\ result' = norminetteResult
           /\ fixResults' = [original_errors |-> Len(norminetteResult.errors),
                             fixes_applied |-> <<>>,
                             remaining_errors |-> <<>>,
                             final_error_count |-> 0,
                             status |-> "completed"]
    /\ files' = IF isDirectory(targetPath) THEN getAllCFiles(targetPath)
                ELSE IF endsWith(targetPath, DotC) \/ endsWith(targetPath, DotH)
                THEN <<targetPath>>
                ELSE <<>>
    /\ fileIdx' = 1
    /\ pc' = "files"
    /\ UNCHANGED <<otherVars, errors, disk, perm, content, originalContent, fixes,
                   initialErrors, env, formatResult>>

\* fixFileErrors starts: the file is read.
ReadFile ==
    /\ pc = "files"
    /\ fileIdx <= Len(files)
    /\ perm[filePath].readable
    /\ content' = disk[filePath]
    /\ originalContent' = disk[filePath]
    /\ fixes' = <<>>
    /\ pc' = "initialCheck"
    /\ UNCHANGED <<otherVars, errors, result, files, fileIdx, disk, perm, initialErrors,
                   env, formatResult, fixResults>>

\* readFileSync throws: nothing catches it, fixNorminetteErrors ends with it.
ReadFileThrows ==
    /\ pc = "files"
    /\ fileIdx <= Len(files)
    /\ ~perm[filePath].readable
    /\ pc' = "thrown"
    /\ UNCHANGED <<otherVars, errors, result, pipelineVars>>

\* Stage 1, the checker's first run on the file.
InitialCheck ==
    /\ pc = "initialCheck"
    /\ \E r \in CheckerReports(disk[filePath], filePath) :
           /\ result' = r
           /\ initialErrors' = r.errors
           /\ pc' = IF Len(r.errors) > 0 THEN "structural" ELSE "reformat"
    /\ UNCHANGED <<otherVars, errors, files, fileIdx, disk, perm, content, originalContent,
                   fixes, env, formatResult, fixResults>>

\* Stage 1, the structural fixes.
StructuralStage ==
    /\ pc = "structural"
    /\ \E structuralResult \in {applyStructuralFixes(content, filePath, initialErrors)} :
           IF structuralResult.content # content
           THEN /\ content' = structuralResult.content
                /\ fixes' = fixes \o [i \in 1..Len(structuralResult.applied) |->
                                         <<"Applied ">> \o structuralResult.applied[i]]
           ELSE UNCHANGED <<content, fixes>>
    /\ pc' = "reformat"
    /\ UNCHANGED <<otherVars, errors, result, files, fileIdx, disk, perm, originalContent,
                   initialErrors, env, formatResult, fixResults>>

\* The rest of Stage 2 once applyClangFormatWithFallback has answered.
afterReformat(fr) ==
    /\ formatResult' = [formatted |-> fr.formatted, usedClangFormat |-> fr.usedClangFormat]
    /\ IF fr.formatted # content
       THEN /\ content' = fr.formatted
            /\ fixes' = Append(fixes, IF fr.usedClangFormat
                                      THEN "Applied clang-format for 42 School compliance"
                                      ELSE "Applied fallback whitespace fixes")
       ELSE UNCHANGED <<content, fixes>>
    /\ pc' = "write"

\* Stage 2: clang-format, or the fallback.
ReformatStage ==
    /\ pc = "reformat"
    /\ \E e \in ClangEnvs(content) :
           /\ env' = e
           /\ \E fr \in {applyClangFormatWithFallback(content, e)} :
                  IF fr.threw
                  THEN /\ pc' = "thrown"
                       /\ UNCHANGED <<content, fixes, formatResult>>
                  ELSE afterReformat(fr)
    /\ UNCHANGED <<otherVars, errors, result, files, fileIdx, disk, perm, originalContent,
                   initialErrors, fixResults>>

\* A stage 3 that skips the intermediate write.
WriteIntermediateSkipped ==
    /\ pc = "write"
    /\ perm[filePath].writable
    /\ pc' = "recheck"
    /\ UNCHANGED <<otherVars, errors, result, pipelineVars>>

\* Stage 3 starts: the intermediate content is written.
WriteIntermediate ==
    /\ pc = "write"
    /\ perm[filePath].writable
    /\ disk' = [disk EXCEPT ![filePath] = content]
    /\ pc' = "recheck"
    /\ UNCHANGED <<otherVars, errors, result, files, fileIdx, perm, content, originalContent,
                   fixes, initialErrors, env, formatResult, fixResults>>

\* writeFileSync throws: nothing catches it, fixNorminetteErrors ends with it.
WriteIntermediateThrows ==
    /\ pc = "write"
    /\ ~perm[filePath].writable
    /\ pc' = "thrown"
    /\ UNCHANGED <<otherVars, errors, result, pipelineVars>>

\* Stage 3, the checker's run on the file as written.
Recheck ==
    /\ pc = "recheck"
    /\ \E r \in CheckerReports(disk[filePath], filePath) :
           /\ result' = r
           /\ errors' = r.errors
           /\ pc' = IF Len(r.errors) > 0 THEN "tokenRepair" ELSE "persist"
    /\ UNCHANGED <<otherVars, pipelineVars>>

\* Stage 3, the token formatter.
TokenRepairStage ==
    /\ pc = "tokenRepair"
    /\ \E formattedContent \in {format(rules, content, errors)} :
           IF formattedContent # content
           THEN /\ content' = formattedContent
                /\ fixes' = Append(fixes, "Applied norminette-specific formatting rules")
           ELSE UNCHANGED <<content, fixes>>
    /\ pc' = "persist"
    /\ UNCHANGED <<otherVars, errors, result, files, fileIdx, disk, perm, originalContent,
                   initialErrors, env, formatResult, fixResults>>

\* The end of fixFileErrors: a changed content is written and reported.
Persist ==
    /\ pc = "persist"
    /\ IF content # originalContent
       THEN /\ disk' = [disk EXCEPT ![filePath] = content]
            /\ fixResults' = [fixResults EXCEPT !.fixes_applied =
                                 Append(@, [file |-> filePath, fixes |-> fixes])]
       ELSE UNCHANGED <<disk, fixResults>>
    /\ pc' = "fileDone"
    /\ UNCHANGED <<otherVars, errors, result, files, fileIdx, perm, content, originalContent,
                   fixes, initialErrors, env, formatResult>>

\* fixFileErrors has returned: the loop goes to the next file.
NextFile ==
    /\ pc = "fileDone"
    /\ fileIdx' = fileIdx + 1
    /\ content' = <<>>
    /\ originalContent' = <<>>
    /\ fixes' = <<>>
    /\ initialErrors' = <<>>
    /\ env' = <<>>
    /\ formatResult' = <<>>
    /\ errors' = <<>>
    /\ pc' = "files"
    /\ UNCHANGED <<otherVars, result, files, disk, perm, fixResults>>

\* After the loop: the checker's last run, and the result is returned.
FixFinal ==
    /\ pc = "files"
    /\ fileIdx > Len(files)
    /\ \E finalResult \in TargetReports(disk, targetPath) :
           /\ result' = finalResult
           /\ fixResults' = [fixResults EXCEPT !.remaining_errors = finalResult.errors,
                                               !.final_error_count = Len(finalResult.errors)]
    /\ pc' = "reported"
    /\ UNCHANGED <<otherVars, errors, files, fileIdx, disk, perm, content, originalContent,
                   fixes, initialErrors, env, formatResult>>

NextFix ==
    \/ FixStart
    \/ ReadFile
    \/ ReadFileThrows
    \/ InitialCheck
    \/ StructuralStage
    \/ ReformatStage
    \/ WriteIntermediate
    \/ WriteIntermediateThrows
    \/ Recheck
    \/ TokenRepairStage
    \/ Persist
    \/ NextFile
    \/ FixFinal

SpecFix == InitFix /\ [][NextFix]_vars

(***************************************************************************)
(* The claims about the fix pipeline, under SpecFix.                       *)
(***************************************************************************)
\* C12 (no diagnostics, no edits): when the checker's first run on a file
\* reports nothing, fixFileErrors ends with no stage having changed the
\* content, the file on disk as it was read and no fixes_applied entry for it.
CleanFileUntouched ==
    (pc = "fileDone" /\ initialErrors = <<>>) =>
        /\ content = originalContent
        /\ fixes = <<>>
        /\ disk[filePath] = originalContent
        /\ \A k \in 1..Len(fixResults.fixes_applied) :
              fixResults.fixes_applied[k].file # filePath

\* The stages of fixFileErrors, in the order of the source.
Stages ==
    <<"initialCheck", "structural", "reformat", "write", "recheck", "tokenRepair",
      "persist", "fileDone">>

StageSet == {Stages[i] : i \in 1..Len(Stages)}

\* C13 (one forward pass): within a file the stages only go forward; the
\* reformat stage always follows stage 1 and is followed by the write of the
\* intermediate content, then by the checker's run on the file as written;
\* the token formatter then runs on the content that is on disk, with the
\* diagnostics of that run.
ForwardStages ==
    [][ /\ (pc \in StageSet /\ pc' \in StageSet) =>
               indexOf(Stages, pc') > indexOf(Stages, pc)
        /\ pc \in {"initialCheck", "structural"} => pc' \in {"structural", "reformat"}
        /\ pc = "initialCheck" => (pc' = "structural" <=> initialErrors' # <<>>)
        /\ pc = "reformat" => pc' = "write"
        /\ pc = "write" =>
               /\ pc' \in {"recheck", "thrown"}
               /\ pc' = "recheck" => disk'[filePath] = content
        /\ pc = "recheck" =>
               /\ pc' \in {"tokenRepair", "persist"}
               /\ disk[filePath] = content
               /\ result' \in CheckerReports(disk[filePath], filePath)
               /\ errors' = result'.errors
               /\ pc' = "tokenRepair" <=> errors' # <<>>
        /\ pc = "tokenRepair" =>
               /\ pc' = "persist"
               /\ disk[filePath] = content
               /\ errors = result.errors
               /\ fixes' # fixes => content' # content
      ]_vars

\* The token formatter is about to run on an intermediate content that differs
\* from the file as it was read and that has been written.
ForwardStagesWitness ==
    /\ pc = "tokenRepair"
    /\ content # originalContent
    /\ disk[filePath] = content
    /\ errors # <<>>

\* C14 (final content persisted): when fixFileErrors returns, the file on disk
\* holds the final content, whatever the stages produced.
FinalContentPersisted == pc = "fileDone" => disk[filePath] = content

\* C15 (failures are per file): fixNorminetteErrors never ends with an
\* exception of one file's processing; it goes on with the remaining files
\* and reports.
FailureDoesNotAbort == pc # "thrown"

\* C16 (reformat never fails): applyClangFormatWithFallback always returns;
\* when clang-format is unavailable, fails, times out or its temp config cannot
\* be written, it returns the built-in whitespace fixes of the content with
\* usedClangFormat false; usedClangFormat is true only with clang-format's own
\* output; the fallback of an empty content is empty.
ReformatNeverFails ==
    /\ env # <<>> => formatResult # <<>>
    /\ formatResult # <<>> =>
          /\ (~env.available \/ ~env.configWritten \/ env.exec \in {"error", "timeout"}) =>
                ~formatResult.usedClangFormat
          /\ formatResult.usedClangFormat =>
                (env.exec = "ok" /\ formatResult.formatted = env.formatted)
          /\ (pc = "write" /\ ~formatResult.usedClangFormat) =>
                formatResult.formatted = fixAllWhitespaceIssues(env.content)
          /\ (~formatResult.usedClangFormat /\ env.content = <<>>) =>
                formatResult.formatted = <<>>

\* clang-format timed out and the fallback changed the content.
ReformatNeverFailsWitness ==
    /\ formatResult # <<>>
    /\ env.exec = "timeout"
    /\ ~formatResult.usedClangFormat
    /\ formatResult.formatted # env.content

\* C17 (status): the reported status of a fix is OK exactly when the final
\* diagnostics are empty and Error otherwise, as is the status of the check
\* it ends with.
StatusFollowsDiagnostics ==
    pc = "reported" =>
        /\ fixResults.status = "OK" <=> fixResults.remaining_errors = <<>>
        /\ fixResults.status = "Error" <=> fixResults.remaining_errors # <<>>
        /\ result.status = "OK" <=> result.errors = <<>>
        /\ result.status = "Error" <=> result.errors # <<>>

\* The fixes_applied entries of the file being processed.
EntriesOf(path) ==
    SelectSeq(fixResults.fixes_applied, LAMBDA entry : entry.file = path)

\* C22 (every alteration recorded): when fixFileErrors returns, fixes_applied
\* has an entry for the file, with one reason per stage that changed the
\* content, exactly when the file on disk differs from what it held before
\* the call.
AlterationRecorded ==
    pc = "fileDone" =>
        /\ (EntriesOf(filePath) # <<>>) <=> (disk[filePath] # originalContent)
        /\ \A k \in 1..Len(EntriesOf(filePath)) : EntriesOf(filePath)[k].fixes = fixes

(***************************************************************************)
(* A formatter built by addRule calls, then one format call: the order of  *)
(* the rules and of the (rule, diagnostic) pairs.                          *)
(***************************************************************************)
MaxRules == 3

\* The rules a caller registers: the two default rules, under any priority.
Priorities == {1, 2}

RulePool ==
    {[rule EXCEPT !.priority = p] : rule \in {spaceReplaceTabRule, spaceBeforeFuncRule},
                                    p \in Priorities}

RuleInputs ==
    { <<"i", "n", "t", " ", "f", "(">>,
      <<"i", "n", "t", " ", "x", "\n", "i", "n", "t", " ", "f", "(">> }

RuleErrors(source) ==
    LET one == [error_code : {"SPACE_REPLACE_TAB", "SPACE_BEFORE_FUNC"},
                line : 1..(NewlineCount(source) + 1), column : {1}]
    IN  UNION {[1..n -> one] : n \in 0..MaxErrors}

\* new NorminetteFormatter(): no rule yet.
InitRules ==
    /\ input \in RuleInputs
    /\ errors \in RuleErrors(input)
    /\ rules = <<>>
    /\ position = 0
    /\ line = 1
    /\ column = 1
    /\ tokens = <<>>
    /\ ruleIdx = 1
    /\ errIdx = 1
    /\ output = <<>>
    /\ pc = "addRule"
    /\ IdleChecker
    /\ IdlePipeline

\* formatter.addRule(rule)
AddRule ==
    /\ pc = "addRule"
    /\ Len(rules) < MaxRules
    /\ \E rule \in RulePool : rules' = addRule(rules, rule)
    /\ UNCHANGED <<formatVars, errors, output, pc, checkerVars, pipelineVars>>

\* formatter.format(content, errors) is called.
FormatCall ==
    /\ pc = "addRule"
    /\ pc' = "format"
    /\ UNCHANGED <<formatVars, errors, rules, output, checkerVars, pipelineVars>>

NextRules == AddRule \/ FormatCall \/ FormatTokenize \/ FormatRule \/ FormatReturn

SpecRules == InitRules /\ [][NextRules]_vars

\* rs is sorted by non-decreasing priority.
SortedByPriority(rs) == \A i, j \in 1..Len(rs) : i < j => rs[i].priority <= rs[j].priority

\* after is before with rule put behind every rule of a priority not above its own.
InsertedStably(before, rule, after) ==
    \E k \in 0..Len(before) :
        /\ after = SubSeq(before, 1, k) \o <<rule>> \o SubSeq(before, k + 1, Len(before))
        /\ \A i \in 1..k : before[i].priority <= rule.priority
        /\ \A i \in (k + 1)..Len(before) : before[i].priority > rule.priority

\* C23 (rule order): every addRule leaves the rules sorted by non-decreasing
\* priority, the new rule behind the rules of the same priority; format visits
\* the pairs (rule, diagnostic) rule by rule in that order and, within a rule,
\* diagnostic by diagnostic, each pair once; the pair's canFix and apply get
\* the stream all earlier pairs have left, and format returns after the last.
RuleOrder ==
    [][ /\ SortedByPriority(rules) /\ SortedByPriority(rules')
        /\ rules' # rules => \E rule \in RulePool : InsertedStably(rules, rule, rules')
        /\ (pc = "rules" /\ pc' = "rules") =>
               /\ ruleIdx \in 1..Len(rules) /\ errIdx \in 1..Len(errors)
               /\ <<ruleIdx', errIdx'>> =
                      IF errIdx < Len(errors) THEN <<ruleIdx, errIdx + 1>>
                      ELSE <<ruleIdx + 1, 1>>
               /\ LET rule == rules[ruleIdx]
                      error == errors[errIdx]
                  IN  tokens' = IF /\ error.error_code \in rule.errorCodes
                                   /\ canFix(rule, tokens, error)
                                THEN apply(rule, tokens, error)
                                ELSE tokens
        /\ (pc = "format" /\ pc' = "rules") => (ruleIdx' = 1 /\ errIdx' = 1)
        /\ (pc = "rules" /\ pc' = "done") =>
               /\ ruleIdx = Len(rules) + 1 \/ errors = <<>>
               /\ output' = reconstructSource(tokens)
      ]_vars

\* format has returned with three rules of two priorities, the first two of
\* the same priority and different names, two diagnostics, and a stream that
\* a rule has rewritten.
RuleOrderWitness ==
    /\ pc = "done"
    /\ Len(rules) = 3
    /\ rules[1].priority < rules[3].priority
    /\ rules[1].name # rules[2].name
    /\ rules[1].priority = rules[2].priority
    /\ Len(errors) = 2
    /\ tokens # tokenize(input).tokens

(***************************************************************************)
(* More claims about the tokenizer, under SpecLexer.                       *)
(***************************************************************************)
\* The number of characters of the input before the first one of token i.
StartOffset(toks, i) == Len(reconstructSource(SubSeq(toks, 1, i - 1)))

\* The line and the column of the character that follows the first n
\* characters of text, counted from the newline characters before it.
LineAfter(text, n) == 1 + Cardinality({k \in 1..n : text[k] = "\n"})

ColumnAfter(text, n) ==
    LET newlines == {k \in 1..n : text[k] = "\n"}
    IN  IF newlines = {} THEN n + 1
        ELSE n + 1 - (CHOOSE k \in newlines : \A j \in newlines : j <= k)

\* C24 (exact positions): every token tokenize returns, the EOF token
\* included, has as line 1 plus the number of newlines before its first
\* character, and as column 1 plus the number of characters between the last
\* newline before it (or the start of the input) and its first character.
PositionsExact ==
    pc = "tokenized" =>
        \A i \in 1..Len(tokens) :
            /\ tokens[i].pos.line = LineAfter(input, StartOffset(tokens, i))
            /\ tokens[i].pos.column = ColumnAfter(input, StartOffset(tokens, i))

\* Index k of text is taken by a backslash escape of the literal that opens at
\* index open: an odd number of backslashes stands right before it.
Escaped(text, open, k) ==
    LET others == {j \in (open + 1)..(k - 1) : text[j] # "\\"}
        run == IF others = {} THEN k - 1 - open
               ELSE k - 1 - (CHOOSE j \in others : \A h \in others : h <= j)
    IN  run % 2 = 1

\* The index of the last character of the literal that opens at index open.
LiteralEnd(text, open) ==
    LET closes == {k \in (open + 1)..Len(text) :
                      text[k] = text[open] /\ ~Escaped(text, open, k)}
    IN  IF closes = {} THEN Len(text)
        ELSE CHOOSE k \in closes : \A j \in closes : k <= j

\* Token i is a string or character literal.
IsLiteral(token) ==
    \/ token.type = "STRING"
    \/ token.type = "CONSTANT" /\ token.value # <<>> /\ token.value[1] = "'"

\* C25 (literals whole): a string or character literal token runs from its
\* opening quote to the first later quote of its kind that no backslash escape
\* has taken, or to the end of the input when there is none; tokenize returns
\* normally, and no character of the literal is a token of its own.
LiteralsWhole ==
    pc = "tokenized" =>
        \A i \in 1..Len(tokens) :
            IsLiteral(tokens[i]) =>
                LET open == StartOffset(tokens, i) + 1
                IN  /\ input[open] \in {"\"", "'"}
                    /\ tokens[i].value = SubSeq(input, open, LiteralEnd(input, open))
                    /\ StartOffset(tokens, i + 1) = LiteralEnd(input, open)

\* A literal with an escaped quote of its kind inside, closed afterwards.
LiteralsWholeWitness ==
    /\ pc = "tokenized"
    /\ \E i \in 1..Len(tokens) :
           /\ tokens[i].type = "STRING"
           /\ tokens[i].value = <<"\"", "\\", "\"", "\"">>

(***************************************************************************)
(* The tokenizer on texts made of comment delimiters: longer inputs over a *)
(* smaller alphabet.                                                       *)
(***************************************************************************)
MaxCommentLen == 6

CommentAlphabet == {"/", "*", "a", "\n"}

CommentInputs == UNION {[1..n -> CommentAlphabet] : n \in 0..MaxCommentLen}

InitComment ==
    /\ input \in CommentInputs
    /\ position = 0
    /\ line = 1
    /\ column = 1
    /\ tokens = <<>>
    /\ errors = <<>>
    /\ rules = <<>>
    /\ ruleIdx = 1
    /\ errIdx = 1
    /\ output = <<>>
    /\ pc = "tokenize"
    /\ IdleChecker
    /\ IdlePipeline

SpecComment == InitComment /\ [][NextLexer]_vars

\* Token i is a block comment.
IsBlockComment(token) ==
    token.type = "COMMENT" /\ startsWith(token.value, <<"/", "*">>)

\* The indices from index first on where a '*' is followed by a '/'.
Terminators(text, first) ==
    {k \in first..(Len(text) - 1) : text[k] = "*" /\ text[k + 1] = "/"}

\* C26 (unterminated block comment): when no '*/' follows a '/*' at all, the
\* comment token holds the whole rest of the input, from '/*' to the last
\* character, and the token after it is EOF.
UnterminatedCommentWhole ==
    pc = "tokenized" =>
        \A i \in 1..Len(tokens) :
            LET open == StartOffset(tokens, i) + 1
            IN  (IsBlockComment(tokens[i]) /\ Terminators(input, open + 1) = {}) =>
                    /\ tokens[i].value = SubSeq(input, open, Len(input))
                    /\ tokens[i + 1].type = "EOF"

\* C30 (block comment delimiters): a block comment token starts with '/*'; when
\* a '*/' begins after the two characters of the opening delimiter, the token
\* ends with the first such '*/'; the '*' of the opening delimiter is never
\* the '*' of a terminator: the token is '/*/' only when the input ends there.
CommentDelimited ==
    pc = "tokenized" =>
        \A i \in 1..Len(tokens) :
            LET open == StartOffset(tokens, i) + 1
                closes == Terminators(input, open + 2)
            IN  IsBlockComment(tokens[i]) =>
                    /\ closes # {} =>
                           tokens[i].value =
                               SubSeq(input, open,
                                      (CHOOSE k \in closes : \A j \in closes : k <= j) + 1)
                    /\ tokens[i].value = <<"/", "*", "/">> => open + 2 = Len(input)

(***************************************************************************)
(* fixAllWhitespaceIssues alone, on texts with comments and literals.      *)
(***************************************************************************)
MaxPieces == 4

Pieces ==
    { <<"/", "*">>, <<"*", "/">>, <<"/", "/">>, <<"\"">>, <<"a">>, <<" ", " ">>,
      <<"\t">>, <<"\n">> }

NormalizerInputs == ContentsOf(Pieces, MaxPieces)

InitNormalizer ==
    /\ input \in NormalizerInputs
    /\ position = 0
    /\ line = 1
    /\ column = 1
    /\ tokens = <<>>
    /\ errors = <<>>
    /\ rules = <<>>
    /\ ruleIdx = 1
    /\ errIdx = 1
    /\ output = <<>>
    /\ pc = "normalize"
    /\ IdleChecker
    /\ IdlePipeline

\* fixAllWhitespaceIssues(content) returns.
Normalize ==
    /\ pc = "normalize"
    /\ output' = fixAllWhitespaceIssues(input)
    /\ pc' = "normalized"
    /\ UNCHANGED <<formatVars, errors, rules, checkerVars, pipelineVars>>

SpecNormalizer == InitNormalizer /\ [][Normalize]_vars

\* A closed block comment, a line comment or a closed string literal.
IsProtected(token) ==
    \/ /\ IsBlockComment(token)
       /\ Len(token.value) >= 4
       /\ endsWith(token.value, <<"*", "/">>)
    \/ token.type = "COMMENT" /\ startsWith(token.value, <<"/", "/">>)
    \/ /\ token.type = "STRING"
       /\ Len(token.value) >= 2
       /\ ~Escaped(token.value, 1, Len(token.value))
       /\ endsWith(token.value, <<"\"">>)

\* C27 (comments and strings kept): every block comment, line comment and
\* string literal of the input stands character for character in the text
\* fixAllWhitespaceIssues returns.
CommentsAndStringsKept ==
    pc = "normalized" =>
        \A t0 \in {tokenize(input).tokens} :
            \A i \in 1..Len(t0) : IsProtected(t0[i]) => includes(output, t0[i].value)

(***************************************************************************)
(* generateHeaderLines alone, on the fields the system can give it.        *)
(***************************************************************************)
MaxFilename == 52

MaxUsername == 14

\* The file names, user names, mail addresses and dates of the model.
Filenames == {Rep("f", n) \o DotC : n \in {1, 49, MaxFilename - 2}}

Usernames == {Rep("u", n) : n \in 1..MaxUsername}

Emails(username) ==
    {username \o <<"@", "s", "t", "u", "d", "e", "n", "t", ".", "4", "2", ".", "f", "r">>,
     <<"m">>}

Dates == {FileCreationTime, <<>>}

Headers ==
    UNION { [filename : Filenames, username : {u}, email : Emails(u), createdDate : Dates,
             createdBy : {u}, updatedDate : {SystemInfo.currentTime}, updatedBy : {u}]
            : u \in Usernames }

InitHeaderLines ==
    /\ env \in Headers
    /\ input = <<>>
    /\ position = 0
    /\ line = 1
    /\ column = 1
    /\ tokens = <<>>
    /\ errors = <<>>
    /\ rules = <<>>
    /\ ruleIdx = 1
    /\ errIdx = 1
    /\ output = <<>>
    /\ pc = "header"
    /\ IdleChecker
    /\ files = <<>>
    /\ fileIdx = 1
    /\ disk = <<>>
    /\ perm = <<>>
    /\ content = <<>>
    /\ originalContent = <<>>
    /\ fixes = <<>>
    /\ initialErrors = <<>>
    /\ formatResult = <<>>
    /\ fixResults = <<>>

\* generateHeaderLines(header) returns; the header text is its lines joined.
GenerateHeaderLines ==
    /\ pc = "header"
    /\ lines' = generateHeaderLines(env)
    /\ output' = join(generateHeaderLines(env), <<"\n">>) \o <<"\n">>
    /\ pc' = "headerDone"
    /\ UNCHANGED <<formatVars, errors, rules, targetPath, exec, lineIdx, filesChecked, result,
                   pipelineVars>>

SpecHeader == InitHeaderLines /\ [][GenerateHeaderLines]_vars

\* C28 (80 columns): generateHeaderLines gives 11 lines of exactly 80
\* characters each, whatever the file name, user name, mail address and
\* dates, and has42Header accepts the header made of them.
HeaderLines80 ==
    pc = "headerDone" =>
        /\ Len(lines) = 11
        /\ \A i \in 1..Len(lines) : Len(lines[i]) = 80
        /\ has42Header(output)

(***************************************************************************)
(* canFix and apply of the default rules on the streams format hands them: *)
(* the tokens of the content, before and after earlier rule applications,  *)
(* and the errors of the call.                                             *)
(***************************************************************************)
\* The SPACE tokens of the error's line that a rule's pattern matches.
MatchingSpaces(rule, toks, error) ==
    {j \in 2..(Len(toks) - 1) :
        /\ toks[j].type = "SPACE"
        /\ lineno(toks[j]) = error.line
        /\ IF rule.name = "SPACE_REPLACE_TAB"
           THEN spaceReplaceTabWindow(toks[j - 1], toks[j], toks[j + 1])
           ELSE /\ j + 2 <= Len(toks)
                /\ spaceBeforeFuncWindow(toks[j - 1], toks[j], toks[j + 1], toks[j + 2])}

Differing(before, after) == {j \in 1..Len(before) : before[j] # after[j]}

CanFixAgreesWithApply(rule, toks, error) ==
    \A after \in {apply(rule, toks, error)} :
        /\ Len(after) = Len(toks)
        /\ canFix(rule, toks, error) <=> after # toks
        /\ after # toks =>
               \E j \in MatchingSpaces(rule, toks, error) :
                   /\ \A k \in MatchingSpaces(rule, toks, error) : j <= k
                   /\ Differing(toks, after) = {j}
                   /\ after[j] = Token("TAB", toks[j].pos, <<"\t">>)

\* C29: for each default rule, canFix is true exactly when apply returns a
\* stream that differs from the one it was given; the stream apply returns has
\* as many tokens, and when it differs it differs in one token only, the first
\* SPACE token of the error's line that the rule's pattern matches, which has
\* become a TAB token at the same position.
CanFixApplyAgree ==
    pc = "rules" =>
        \A r \in 1..Len(defaultFormattingRules) : \A e \in 1..Len(errors) :
            CanFixAgreesWithApply(defaultFormattingRules[r], tokens, errors[e])

\* A rule of the call has replaced a SPACE token of the content by a TAB token,
\* and a later pair of the loops is still to come.
CanFixApplyAgreeWitness ==
    /\ pc = "rules"
    /\ ruleIdx <= Len(rules)
    /\ \E j \in 1..Len(tokens) :
           /\ tokens[j].type = "TAB"
           /\ input[tokens[j].pos.column] = " "
           /\ tokens[j].pos.line = 1

(***************************************************************************)
(* Two fixFileErrors pipelines at once, one per file of the directory, on  *)
(* one working directory and one fixResults.  A pipeline instance is a     *)
(* thread of control of its own, so every statement that reads or writes   *)
(* the file system, and every wait for a process, is a step.  Here the     *)
(* variables of fixFileErrors are functions of the file: content[f],       *)
(* fixes[f], pc[f], and so on; disk has the temp config while it exists.   *)
(***************************************************************************)
PipelineFiles == {FileA, FileB}

\* path.join(process.cwd(), '.clang-format-temp')
tempConfigPath == <<".", "c", "l", "a", "n", "g", "-", "f", "o", "r", "m", "a", "t", "-", "t", "e", "m", "p">>

\* generateClangFormatConfigString(), by its first key.
generateClangFormatConfigString == <<"L", "a", "n", "g", "u", "a", "g", "e">>

\* fs.existsSync(path)
existsSync(d, path) == path \in DOMAIN d

\* fs.unlinkSync(path), after existsSync(path) or not at all
unlinkSync(d, path) == [p \in DOMAIN d \ {path} |-> d[p]]

Each(value) == [f \in PipelineFiles |-> value]

InitInterleaved ==
    /\ \E a \in ContentsA, b \in ContentsB :
           disk = (FileA :> a) @@ (FileB :> b)
    /\ perm = Each([readable |-> TRUE, writable |-> TRUE])
    /\ targetPath = Dir
    /\ files = getAllCFiles(Dir)
    /\ fileIdx = 1
    /\ content = Each(<<>>)
    /\ originalContent = Each(<<>>)
    /\ fixes = Each(<<>>)
    /\ initialErrors = Each(<<>>)
    /\ errors = Each(<<>>)
    /\ env = Each(<<>>)
    /\ formatResult = Each(<<>>)
    /\ fixResults = [original_errors |-> 0, fixes_applied |-> <<>>, remaining_errors |-> <<>>,
                     final_error_count |-> 0, status |-> "completed"]
    /\ rules = formatter
    /\ result = [status |-> "OK", files_checked |-> 0, errors |-> <<>>, summary |-> <<>>]
    /\ exec = [failed |-> FALSE, stdout |-> <<>>, stderr |-> <<>>, message |-> <<>>]
    /\ lines = <<>>
    /\ lineIdx = 1
    /\ filesChecked = 0
    /\ input = <<>>
    /\ position = 0
    /\ line = 1
    /\ column = 1
    /\ tokens = <<>>
    /\ ruleIdx = 1
    /\ errIdx = 1
    /\ output = <<>>
    /\ pc = Each("read")

\* What no pipeline step writes.
interleavedFrame == <<otherVars, result, files, fileIdx, perm>>

\* let content = fs.readFileSync(filePath); const originalContent = content.
PipelineRead(f) ==
    /\ pc[f] = "read"
    /\ content' = [content EXCEPT ![f] = disk[f]]
    /\ originalContent' = [originalContent EXCEPT ![f] = disk[f]]
    /\ pc' = [pc EXCEPT ![f] = "initialCheck"]
    /\ UNCHANGED <<interleavedFrame, errors, disk, fixes, initialErrors, env, formatResult,
                   fixResults>>

\* Stage 1: await runNorminette(filePath), then the structural fixes.
PipelineStructural(f) ==
    /\ pc[f] = "initialCheck"
    /\ \E errs \in TargetLists(disk[f], f) :
           /\ initialErrors' = [initialErrors EXCEPT ![f] = errs]
           /\ IF Len(errs) > 0
              THEN \E structuralResult \in {applyStructuralFixes(content[f], f, errs)} :
                       IF structuralResult.content # content[f]
                       THEN /\ content' = [content EXCEPT ![f] = structuralResult.content]
                            /\ fixes' = [fixes EXCEPT ![f] =
                                   @ \o [i \in 1..Len(structuralResult.applied) |->
                                            <<"Applied ">> \o structuralResult.applied[i]]]
                       ELSE UNCHANGED <<content, fixes>>
              ELSE UNCHANGED <<content, fixes>>
    /\ pc' = [pc EXCEPT ![f] = "reformat"]
    /\ UNCHANGED <<interleavedFrame, errors, disk, originalContent, env, formatResult,
                   fixResults>>

\* The rest of Stage 2 once applyClangFormatWithFallback has answered.
pipelineAfterReformat(f, fr) ==
    /\ formatResult' = [formatResult EXCEPT ![f] = fr]
    /\ IF fr.formatted # content[f]
       THEN /\ content' = [content EXCEPT ![f] = fr.formatted]
            /\ fixes' = [fixes EXCEPT ![f] =
                   Append(@, IF fr.usedClangFormat
                             THEN "Applied clang-format for 42 School compliance"
                             ELSE "Applied fallback whitespace fixes")]
       ELSE UNCHANGED <<content, fixes>>
    /\ pc' = [pc EXCEPT ![f] = "write"]

\* The catch of applyClangFormatWithFallback.
fallbackResult(f) ==
    [formatted |-> fixAllWhitespaceIssues(content[f]), usedClangFormat |-> FALSE]

\* Stage 2, applyClangFormat: await checkClangFormatAvailability().
PipelineAvailability(f) ==
    /\ pc[f] = "reformat"
    /\ \E available \in BOOLEAN :
           IF available
           THEN /\ pc' = [pc EXCEPT ![f] = "writeConfig"]
                /\ UNCHANGED <<content, fixes, formatResult>>
           ELSE pipelineAfterReformat(f, fallbackResult(f))
    /\ UNCHANGED <<interleavedFrame, errors, disk, originalContent, initialErrors, env,
                   fixResults>>

\* fs.writeFileSync(tempConfigPath, configString)
PipelineWriteConfig(f) ==
    /\ pc[f] = "writeConfig"
    /\ disk' = (tempConfigPath :> generateClangFormatConfigString) @@ disk
    /\ pc' = [pc EXCEPT ![f] = "execClang"]
    /\ UNCHANGED <<interleavedFrame, errors, content, originalContent, fixes, initialErrors,
                   env, formatResult, fixResults>>

\* execSync('clang-format --style=file:.clang-format-temp'): clang-format
\* fails when the style file is not there; otherwise it prints one of the
\* texts it can print, or fails for a reason of its own.
PipelineExecClang(f) ==
    /\ pc[f] = "execClang"
    /\ IF ~existsSync(disk, tempConfigPath)
       THEN env' = [env EXCEPT ![f] = [exec |-> "noStyleFile", formatted |-> <<>>]]
       ELSE \/ env' = [env EXCEPT ![f] = [exec |-> "error", formatted |-> <<>>]]
            \/ \E formatted \in ClangOutputs(content[f]) :
                   env' = [env EXCEPT ![f] = [exec |-> "ok", formatted |-> formatted]]
    /\ pc' = [pc EXCEPT ![f] = "unlink"]
    /\ UNCHANGED <<interleavedFrame, errors, disk, content, originalContent, fixes,
                   initialErrors, formatResult, fixResults>>

\* finally: if (fs.existsSync(tempConfigPath)) fs.unlinkSync(tempConfigPath);
\* then the formatted text is returned, or the fallback takes over.
PipelineUnlink(f) ==
    /\ pc[f] = "unlink"
    /\ disk' = unlinkSync(disk, tempConfigPath)
    /\ IF env[f].exec = "ok"
       THEN pipelineAfterReformat(f, [formatted |-> env[f].formatted, usedClangFormat |-> TRUE])
       ELSE pipelineAfterReformat(f, fallbackResult(f))
    /\ UNCHANGED <<interleavedFrame, errors, originalContent, initialErrors, env, fixResults>>

\* Stage 3 starts: fs.writeFileSync(filePath, content).
PipelineWriteIntermediate(f) ==
    /\ pc[f] = "write"
    /\ disk' = [disk EXCEPT ![f] = content[f]]
    /\ pc' = [pc EXCEPT ![f] = "recheck"]
    /\ UNCHANGED <<interleavedFrame, errors, content, originalContent, fixes, initialErrors,
                   env, formatResult, fixResults>>

\* Stage 3: await runNorminette(filePath), then formatter.format.
PipelineTokenRepair(f) ==
    /\ pc[f] = "recheck"
    /\ \E errs \in TargetLists(disk[f], f) :
           /\ errors' = [errors EXCEPT ![f] = errs]
           /\ IF Len(errs) > 0
              THEN \E formattedContent \in {format(rules, content[f], errs)} :
                       IF formattedContent # content[f]
                       THEN /\ content' = [content EXCEPT ![f] = formattedContent]
                            /\ fixes' = [fixes EXCEPT ![f] =
                                   Append(@, "Applied norminette-specific formatting rules")]
                       ELSE UNCHANGED <<content, fixes>>
              ELSE UNCHANGED <<content, fixes>>
    /\ pc' = [pc EXCEPT ![f] = "persist"]
    /\ UNCHANGED <<interleavedFrame, disk, originalContent, initialErrors, env, formatResult,
                   fixResults>>

\* The end of fixFileErrors: a changed content is written and reported.
PipelinePersist(f) ==
    /\ pc[f] = "persist"
    /\ IF content[f] # originalContent[f]
       THEN /\ disk' = [disk EXCEPT ![f] = content[f]]
            /\ fixResults' = [fixResults EXCEPT !.fixes_applied =
                                 Append(@, [file |-> f, fixes |-> fixes[f]])]
       ELSE UNCHANGED <<disk, fixResults>>
    /\ pc' = [pc EXCEPT ![f] = "fileDone"]
    /\ UNCHANGED <<interleavedFrame, errors, content, originalContent, fixes, initialErrors,
                   env, formatResult>>

NextInterleaved ==
    \E f \in PipelineFiles :
        \/ PipelineRead(f)
        \/ PipelineStructural(f)
        \/ PipelineAvailability(f)
        \/ PipelineWriteConfig(f)
        \/ PipelineExecClang(f)
        \/ PipelineUnlink(f)
        \/ PipelineWriteIntermediate(f)
        \/ PipelineTokenRepair(f)
        \/ PipelinePersist(f)

SpecInterleaved == InitInterleaved /\ [][NextInterleaved]_vars

\* What belongs to the pipeline of file f alone.
OwnState(f) ==
    <<disk[f], content[f], originalContent[f], fixes[f], initialErrors[f], errors[f],
      env[f], formatResult[f], pc[f]>>

\* What is shared: the result record, the formatter, the temp config.
SharedState ==
    <<fixResults, rules,
      IF existsSync(disk, tempConfigPath) THEN <<disk[tempConfigPath]>> ELSE <<>>>>

\* C21 (independent pipelines): a step of one file's pipeline changes nothing
\* but that pipeline's own state: not the state of the other file's pipeline,
\* and nothing that both pipelines use (the result record, the formatter's
\* rules, the temp config file).
PipelinesShareNothing ==
    [][\A f \in PipelineFiles :
           pc'[f] # pc[f] =>
               /\ UNCHANGED SharedState
               /\ \A g \in PipelineFiles \ {f} : UNCHANGED OwnState(g)]_vars

\* clang-format finds the style file its own pipeline has written.
StyleFileFound ==
    \A f \in PipelineFiles : pc[f] = "unlink" => env[f].exec # "noStyleFile"

====
